---- MODULE Spec2Model ----
(***************************************************************************)
(* The reconciliation engine of monitor-operator: MonitorStackReconciler   *)
(* (internal/controller/monitorstack_controller.go, helpers.go).           *)
(*                                                                         *)
(* One MonitorStack object and its child resources live in an API server.  *)
(* An invocation of Reconcile is a sequence of blocking API calls; every   *)
(* action below is one API call of the invocation together with the local  *)
(* computation that follows it up to the next call.  Between two calls the *)
(* user, the workload controller and the garbage collector may act.        *)
(***************************************************************************)
EXTENDS Integers, Sequences, FiniteSets, TLC

\* Bound of the model: the environment events of a behaviour (external writes
\* and injected API failures together).
MaxEvents == 2

\* The stack under reconciliation (req.NamespacedName).
StackName == "acme"

\* time.Minute, time.Minute * 5 and time.Second * 30, in seconds.
RequeueFailure == 60
RequeueSuccess == 300
RequeueDeletion == 30

PrometheusPort == 9090
GrafanaPort == 3000

-----------------------------------------------------------------------------
(* Names and labels (helpers.go).                                          *)

getPrometheusName(name) == name \o "-prometheus"
getPrometheusServiceName(name) == name \o "-prometheus"
\* getPrometheusConfigMapName, had it left the stack's name out.
getPrometheusConfigMapName_Fixed(name) == "prometheus-config"

getPrometheusConfigMapName(name) == name \o "-prometheus-config"
getPrometheusPVCName(name) == name \o "-prometheus-data"
\* getGrafanaName, had it not used the stack's name.
getGrafanaName_Shared(name) == "grafana"

getGrafanaName(name) == name \o "-grafana"
getGrafanaServiceName(name) == name \o "-grafana"
getGrafanaDatasourcesConfigMapName(name) == name \o "-grafana-datasources"

Key(kind, name) == [kind |-> kind, name |-> name]

PromCM == Key("ConfigMap", getPrometheusConfigMapName(StackName))
PromPVC == Key("PersistentVolumeClaim", getPrometheusPVCName(StackName))
PromDep == Key("Deployment", getPrometheusName(StackName))
PromSvc == Key("Service", getPrometheusServiceName(StackName))
GrafCM == Key("ConfigMap", getGrafanaDatasourcesConfigMapName(StackName))
GrafDep == Key("Deployment", getGrafanaName(StackName))
GrafSvc == Key("Service", getGrafanaServiceName(StackName))
StackKey == Key("MonitorStack", StackName)

ChildKeys == {PromCM, PromPVC, PromDep, PromSvc, GrafCM, GrafDep, GrafSvc}

\* The keys of the generated labels.
IdentityKeys ==
  {"app.kubernetes.io/name", "app.kubernetes.io/instance",
   "app.kubernetes.io/component", "app.kubernetes.io/managed-by",
   "app.kubernetes.io/part-of"}

\* getLabels, had the generated labels been written over the user's.
getLabels_GeneratedWin(ms, component) ==
  LET base == [k \in IdentityKeys |->
                 CASE k = "app.kubernetes.io/name" -> "monitor-operator"
                   [] k = "app.kubernetes.io/instance" -> ms.name
                   [] k = "app.kubernetes.io/component" -> component
                   [] k = "app.kubernetes.io/managed-by" -> "monitor-operator"
                   [] k = "app.kubernetes.io/part-of" -> "monitoring-stack"]
      user == ms.spec.labels
  IN [k \in DOMAIN base \cup DOMAIN user |->
        IF k \in DOMAIN base THEN base[k] ELSE user[k]]

\* getLabels: the generated labels, overridden by the user's labels.
getLabels(ms, component) ==
  LET base == [k \in IdentityKeys |->
                 CASE k = "app.kubernetes.io/name" -> "monitor-operator"
                   [] k = "app.kubernetes.io/instance" -> ms.name
                   [] k = "app.kubernetes.io/component" -> component
                   [] k = "app.kubernetes.io/managed-by" -> "monitor-operator"
                   [] k = "app.kubernetes.io/part-of" -> "monitoring-stack"]
      user == ms.spec.labels
  IN [k \in DOMAIN base \cup DOMAIN user |->
        IF k \in DOMAIN user THEN user[k] ELSE base[k]]

\* getPrometheusConfig: the raw override when given, else the fixed template.
getPrometheusConfig(ms) ==
  IF ms.spec.prometheus.config # "" THEN ms.spec.prometheus.config
  ELSE "default-prometheus-config"

\* buildGrafanaDatasourcesConfig: one entry per datasource, in order.
buildGrafanaDatasourcesConfig(ms) ==
  [i \in DOMAIN ms.spec.grafana.datasources |->
     LET ds == ms.spec.grafana.datasources[i]
     IN [name |-> ds.name, type |-> ds.type, url |-> ds.url,
         isDefault |-> (i = 1 /\ ds.type = "prometheus")]]

-----------------------------------------------------------------------------
(* Objects of the API server.  An absent object is NoObj.  `annotations`   *)
(* is the set of annotation keys, none of which the engine writes; the     *)
(* workload status is `replicas` and `readyReplicas`.                       *)

NoObj == [present |-> FALSE, labels |-> <<>>, spec |-> <<>>, owner |-> "",
          annotations |-> {}, replicas |-> 0, readyReplicas |-> 0]

Obj(labels, spec, owner) ==
  [present |-> TRUE, labels |-> labels, spec |-> spec, owner |-> owner,
   annotations |-> {}, replicas |-> 0, readyReplicas |-> 0]

\* Desired forms, each with the controller reference set (SetControllerReference).
desiredPrometheusConfigMap(ms) ==
  Obj(getLabels(ms, "prometheus"),
      [data |-> getPrometheusConfig(ms)], ms.name)

\* desiredPrometheusPVC, had the controller reference not been set.
desiredPrometheusPVC_NoOwner(ms) ==
  Obj(getLabels(ms, "prometheus"),
      [accessModes |-> <<"ReadWriteOnce">>,
       storage |-> ms.spec.prometheus.storage.size,
       storageClassName |-> ms.spec.prometheus.storage.storageClass], "")

desiredPrometheusPVC(ms) ==
  Obj(getLabels(ms, "prometheus"),
      [accessModes |-> <<"ReadWriteOnce">>,
       storage |-> ms.spec.prometheus.storage.size,
       storageClassName |-> ms.spec.prometheus.storage.storageClass], ms.name)

\* addPrometheusDataVolume, had the claim been referenced whatever the size.
addPrometheusDataVolume_AlwaysClaim(ms) ==
  [name |-> "data", claimName |-> getPrometheusPVCName(ms.name)]

addPrometheusDataVolume(ms) ==
  IF ms.spec.prometheus.storage.size # ""
  THEN [name |-> "data", claimName |-> getPrometheusPVCName(ms.name)]
  ELSE [name |-> "data", claimName |-> ""]

buildPrometheusDeployment(ms) ==
  Obj(getLabels(ms, "prometheus"),
      [replicas |-> 1,
       selector |-> getLabels(ms, "prometheus"),
       templateLabels |-> getLabels(ms, "prometheus"),
       containers |-> <<[name |-> "prometheus",
                         image |-> ms.spec.prometheus.image \o ":" \o ms.spec.prometheus.tag]>>,
       volumes |-> <<[name |-> "config",
                      configMap |-> getPrometheusConfigMapName(ms.name)],
                     addPrometheusDataVolume(ms)>>], ms.name)

\* The labels map of a Service after Service.Labels was merged into it.
serviceLabels(generated, extra) ==
  [k \in DOMAIN generated \cup DOMAIN extra |->
     IF k \in DOMAIN extra THEN extra[k] ELSE generated[k]]

\* buildPrometheusService.  ObjectMeta.Labels and Spec.Selector are the one map
\* getLabels returned, so the merge of Service.Labels into service.Labels
\* (a write through the map) shows in the selector as well.
buildPrometheusService(ms) ==
  LET labels == serviceLabels(getLabels(ms, "prometheus"),
                              ms.spec.prometheus.service.labels)
  IN Obj(labels,
         [type |-> ms.spec.prometheus.service.type,
          selector |-> labels,
          ports |-> <<[name |-> "web", port |-> ms.spec.prometheus.service.port,
                       targetPort |-> PrometheusPort, protocol |-> "TCP",
                       nodePort |-> IF ms.spec.prometheus.service.type = "NodePort"
                                       /\ ms.spec.prometheus.service.nodePort > 0
                                    THEN ms.spec.prometheus.service.nodePort ELSE 0]>>],
         ms.name)

desiredGrafanaDatasourcesConfigMap(ms) ==
  Obj(getLabels(ms, "grafana"),
      [data |-> buildGrafanaDatasourcesConfig(ms)], ms.name)

buildGrafanaDeployment(ms) ==
  Obj(getLabels(ms, "grafana"),
      [replicas |-> 1,
       selector |-> getLabels(ms, "grafana"),
       templateLabels |-> getLabels(ms, "grafana"),
       containers |-> <<[name |-> "grafana",
                         image |-> ms.spec.grafana.image \o ":" \o ms.spec.grafana.tag]>>,
       volumes |-> <<[name |-> "grafana-storage", configMap |-> ""]>> \o
                   (IF Len(ms.spec.grafana.datasources) > 0
                    THEN <<[name |-> "datasources",
                            configMap |-> getGrafanaDatasourcesConfigMapName(ms.name)]>>
                    ELSE <<>>)], ms.name)

\* buildGrafanaService: labels and selector share one map here too.
buildGrafanaService(ms) ==
  LET labels == serviceLabels(getLabels(ms, "grafana"),
                              ms.spec.grafana.service.labels)
  IN Obj(labels,
         [type |-> ms.spec.grafana.service.type,
          selector |-> labels,
          ports |-> <<[name |-> "grafana", port |-> ms.spec.grafana.service.port,
                       targetPort |-> GrafanaPort, protocol |-> "TCP",
                       nodePort |-> IF ms.spec.grafana.service.type = "NodePort"
                                       /\ ms.spec.grafana.service.nodePort > 0
                                    THEN ms.spec.grafana.service.nodePort ELSE 0]>>],
         ms.name)

\* The field-scoped merges applied to a fetched object before Update.
mergeConfigMap(existing, desired) == [existing EXCEPT !.spec = desired.spec]

\* mergeDeployment, had the replica count of the fetched object been kept.
mergeDeployment_KeepsReplicas(existing, desired) ==
  [existing EXCEPT !.spec = [desired.spec EXCEPT !.replicas = existing.spec.replicas],
                   !.labels = desired.labels]

\* mergeDeployment, had the fetched object been replaced by the built one.
mergeDeployment_Replace(existing, desired) == desired

mergeDeployment(existing, desired) ==
  [existing EXCEPT !.spec = desired.spec, !.labels = desired.labels]

mergeService(existing, desired) ==
  [existing EXCEPT !.spec = [existing.spec EXCEPT !.ports = desired.spec.ports,
                                                   !.type = desired.spec.type],
                   !.labels = desired.labels]

-----------------------------------------------------------------------------
(* The MonitorStack object (api/v1 types).                                 *)

PrometheusSpec(enabled, size) ==
  [enabled |-> enabled, image |-> "prom/prometheus", tag |-> "latest",
   storage |-> [size |-> size, storageClass |-> ""],
   service |-> [type |-> "ClusterIP", port |-> PrometheusPort, nodePort |-> 0,
                labels |-> <<>>],
   config |-> "", retention |-> "15d"]

GrafanaSpec(enabled, datasources) ==
  [enabled |-> enabled, image |-> "grafana/grafana", tag |-> "latest",
   service |-> [type |-> "ClusterIP", port |-> GrafanaPort, nodePort |-> 0,
                labels |-> <<>>],
   adminPassword |-> "admin", datasources |-> datasources]

MonitorStackSpec(pe, size, ge, datasources) ==
  [prometheus |-> PrometheusSpec(pe, size),
   grafana |-> GrafanaSpec(ge, datasources),
   labels |-> <<>>]

Datasource == [name |-> "prom", type |-> "prometheus", url |-> "http://acme-prometheus:9090"]

\* The specs a user may write.
Specs ==
  {MonitorStackSpec(pe, size, ge, ds) :
     pe \in BOOLEAN, size \in {"", "10Gi"}, ge \in BOOLEAN, ds \in {<<>>, <<Datasource>>}}

ComponentStatus(ready, replicas, message, endpoint) ==
  [ready |-> ready, replicas |-> replicas, message |-> message, endpoint |-> endpoint]

MonitorStackStatus ==
  [phase |-> "", message |-> "",
   prometheusStatus |-> ComponentStatus(FALSE, 0, "", ""),
   grafanaStatus |-> ComponentStatus(FALSE, 0, "", "")]

\* The object as stored; an absent object keeps no content.
NoStack ==
  [present |-> FALSE, deleting |-> FALSE, finalizer |-> FALSE,
   spec |-> MonitorStackSpec(FALSE, "", FALSE, <<>>), status |-> MonitorStackStatus]

\* var monitorStack monitoringv1.MonitorStack: the invocation's in-memory copy.
MonitorStack ==
  [name |-> StackName, deleting |-> FALSE, finalizer |-> FALSE,
   spec |-> MonitorStackSpec(FALSE, "", FALSE, <<>>), status |-> MonitorStackStatus]

\* ctrl.Result and the error returned with it ("" is nil).
Result(requeueAfter, err) == [requeueAfter |-> requeueAfter, err |-> err]

-----------------------------------------------------------------------------
(* Validation and defaulting (helpers.go).  An error is its text; "" is    *)
(* nil.                                                                    *)

validatePrometheusConfig(monitorStack) ==
  LET prometheus == monitorStack.spec.prometheus
  IN IF prometheus.service.port < 1 \/ prometheus.service.port > 65535
     THEN "service port must be between 1 and 65535, got "
            \o ToString(prometheus.service.port)
     ELSE IF /\ prometheus.service.type = "NodePort"
             /\ prometheus.service.nodePort > 0
             /\ \/ prometheus.service.nodePort < 30000
                \/ prometheus.service.nodePort > 32767
     THEN "nodePort must be between 30000 and 32767, got "
            \o ToString(prometheus.service.nodePort)
     ELSE IF prometheus.image = "" THEN "prometheus image cannot be empty"
     ELSE IF prometheus.tag = "" THEN "prometheus tag cannot be empty"
     ELSE ""

\* The error of the first datasource entry with an empty field, from entry i on.
RECURSIVE validateDatasources(_, _)
validateDatasources(datasources, i) ==
  IF i > Len(datasources) THEN ""
  ELSE LET ds == datasources[i]
           at == "datasource[" \o ToString(i - 1) \o "] "
       IN IF ds.name = "" THEN at \o "name cannot be empty"
          ELSE IF ds.type = "" THEN at \o "type cannot be empty"
          ELSE IF ds.url = "" THEN at \o "URL cannot be empty"
          ELSE validateDatasources(datasources, i + 1)

validateGrafanaConfig(monitorStack) ==
  LET grafana == monitorStack.spec.grafana
  IN IF grafana.service.port < 1 \/ grafana.service.port > 65535
     THEN "service port must be between 1 and 65535, got "
            \o ToString(grafana.service.port)
     ELSE IF /\ grafana.service.type = "NodePort"
             /\ grafana.service.nodePort > 0
             /\ \/ grafana.service.nodePort < 30000
                \/ grafana.service.nodePort > 32767
     THEN "nodePort must be between 30000 and 32767, got "
            \o ToString(grafana.service.nodePort)
     ELSE IF grafana.image = "" THEN "grafana image cannot be empty"
     ELSE IF grafana.tag = "" THEN "grafana tag cannot be empty"
     ELSE IF grafana.adminPassword = "" THEN "grafana admin password cannot be empty"
     ELSE validateDatasources(grafana.datasources, 1)

validateMonitorStack(monitorStack) ==
  IF ~monitorStack.spec.prometheus.enabled /\ ~monitorStack.spec.grafana.enabled
  THEN "at least one component (Prometheus or Grafana) must be enabled"
  ELSE IF /\ monitorStack.spec.prometheus.enabled
          /\ validatePrometheusConfig(monitorStack) # ""
  THEN "prometheus configuration error: " \o validatePrometheusConfig(monitorStack)
  ELSE IF /\ monitorStack.spec.grafana.enabled
          /\ validateGrafanaConfig(monitorStack) # ""
  THEN "grafana configuration error: " \o validateGrafanaConfig(monitorStack)
  ELSE ""

\* setPrometheusDefaults, had it defaulted the retention to 30 days.
setPrometheusDefaults_Retention30d(prometheus) ==
  [prometheus EXCEPT
     !.image = IF @ = "" THEN "prom/prometheus" ELSE @,
     !.tag = IF @ = "" THEN "latest" ELSE @,
     !.service.port = IF @ = 0 THEN 9090 ELSE @,
     !.service.type = IF @ = "" THEN "ClusterIP" ELSE @,
     !.retention = IF @ = "" THEN "30d" ELSE @,
     !.resources.requests.cpu = IF @ = "" THEN "100m" ELSE @,
     !.resources.requests.memory = IF @ = "" THEN "256Mi" ELSE @]

setPrometheusDefaults(prometheus) ==
  [prometheus EXCEPT
     !.image = IF @ = "" THEN "prom/prometheus" ELSE @,
     !.tag = IF @ = "" THEN "latest" ELSE @,
     !.service.port = IF @ = 0 THEN 9090 ELSE @,
     !.service.type = IF @ = "" THEN "ClusterIP" ELSE @,
     !.retention = IF @ = "" THEN "15d" ELSE @,
     !.resources.requests.cpu = IF @ = "" THEN "100m" ELSE @,
     !.resources.requests.memory = IF @ = "" THEN "256Mi" ELSE @]

\* setGrafanaDefaults, had it reset the admin password whatever was written.
setGrafanaDefaults_ResetsPassword(grafana) ==
  [grafana EXCEPT
     !.image = IF @ = "" THEN "grafana/grafana" ELSE @,
     !.tag = IF @ = "" THEN "latest" ELSE @,
     !.service.port = IF @ = 0 THEN 3000 ELSE @,
     !.service.type = IF @ = "" THEN "ClusterIP" ELSE @,
     !.adminPassword = "admin",
     !.resources.requests.cpu = IF @ = "" THEN "100m" ELSE @,
     !.resources.requests.memory = IF @ = "" THEN "128Mi" ELSE @]

setGrafanaDefaults(grafana) ==
  [grafana EXCEPT
     !.image = IF @ = "" THEN "grafana/grafana" ELSE @,
     !.tag = IF @ = "" THEN "latest" ELSE @,
     !.service.port = IF @ = 0 THEN 3000 ELSE @,
     !.service.type = IF @ = "" THEN "ClusterIP" ELSE @,
     !.adminPassword = IF @ = "" THEN "admin" ELSE @,
     !.resources.requests.cpu = IF @ = "" THEN "100m" ELSE @,
     !.resources.requests.memory = IF @ = "" THEN "128Mi" ELSE @]

\* setDefaultValues, had it filled in the disabled components as well.
setDefaultValues_AllComponents(monitorStack) ==
  [monitorStack EXCEPT
     !.spec.prometheus = setPrometheusDefaults(@),
     !.spec.grafana = setGrafanaDefaults(@)]

\* Defaults are filled in for the enabled components only.
setDefaultValues(monitorStack) ==
  [monitorStack EXCEPT
     !.spec.prometheus = IF @.enabled THEN setPrometheusDefaults(@) ELSE @,
     !.spec.grafana = IF @.enabled THEN setGrafanaDefaults(@) ELSE @]

-----------------------------------------------------------------------------
VARIABLES
  stack,      \* the MonitorStack object in the API server
  store,      \* the child resources in the API server, by key
  pc,         \* position of the invocation: "idle", a call site, or "done"
  ms,         \* the invocation's in-memory MonitorStack
  fetched,    \* the MonitorStack as the invocation fetched it
  calls,      \* the API calls the invocation has issued, with their outcomes
  result,     \* what the invocation returns (meaningful at "done")
  stale,      \* the child fetched for Update was written by someone else since
  msStale,    \* the stored MonitorStack was written by someone else since the fetch
  events,     \* environment events so far: external writes and injected failures
  second,     \* the previous invocation succeeded undisturbed
  disturbed   \* an external event happened since the invocation was triggered

vars == <<stack, store, pc, ms, fetched, calls, result, stale, msStale, events,
          second, disturbed>>

env == <<fetched, second, disturbed>>

Init ==
  /\ stack \in {[present |-> TRUE, deleting |-> FALSE, finalizer |-> FALSE,
                 spec |-> s, status |-> MonitorStackStatus] : s \in Specs}
  /\ store = [k \in ChildKeys |-> NoObj]
  /\ pc = "idle"
  /\ ms = MonitorStack
  /\ fetched = MonitorStack
  /\ calls = <<>>
  /\ result = Result(0, "")
  /\ stale = FALSE
  /\ msStale = FALSE
  /\ events = 0
  /\ second = FALSE
  /\ disturbed = FALSE

-----------------------------------------------------------------------------
(* API calls.  `natural` is the server's answer when no failure is         *)
(* injected: "ok", "notfound", or "error" (conflict, already exists).      *)

Outcomes(natural) ==
  {natural} \cup (IF events < MaxEvents THEN {"error"} ELSE {})

Api(verb, key, natural, o) ==
  /\ events' = IF o = "error" /\ natural # "error" THEN events + 1 ELSE events
  /\ calls' = Append(calls, [verb |-> verb, key |-> key, outcome |-> o])

errText(o) == IF o = "notfound" THEN "not found" ELSE "api error"

getNatural(key) == IF store[key].present THEN "ok" ELSE "notfound"

createNatural(key) == IF store[key].present THEN "error" ELSE "ok"

\* updateNatural, had the server accepted a write of a stale copy.
updateNatural_LastWriteWins(key) ==
  IF ~store[key].present THEN "notfound" ELSE "ok"

updateNatural(key) ==
  IF ~store[key].present THEN "notfound" ELSE IF stale THEN "error" ELSE "ok"

stackGetNatural == IF stack.present THEN "ok" ELSE "notfound"

\* stackUpdateNatural, had the server accepted a write of a stale stack.
stackUpdateNatural_LastWriteWins ==
  IF ~stack.present THEN "notfound" ELSE "ok"

stackUpdateNatural ==
  IF ~stack.present THEN "notfound" ELSE IF msStale THEN "error" ELSE "ok"

\* Local control flow of an invocation.
Continue(next) == pc' = next /\ UNCHANGED <<ms, result>>

Return(res) == pc' = "done" /\ result' = res /\ UNCHANGED ms

\* FailWith, had the error path asked for the success interval.
FailWith_SuccessInterval(component, e) ==
  /\ pc' = "updateStatus"
  /\ ms' = [ms EXCEPT !.status.phase = "Failed",
                      !.status.message = component \o " reconciliation failed: " \o e]
  /\ result' = Result(RequeueSuccess, e)

\* FailWith, had Reconcile logged the error and gone on to the next step.
FailWith_GoesOn(component, e) ==
  /\ pc' = IF component = "Prometheus"
           THEN IF ms.spec.grafana.enabled THEN "createGrafanaDeployment_Get"
                ELSE "cleanupGrafanaDeployment_Get"
           ELSE "updateOverallStatus"
  /\ ms' = [ms EXCEPT !.status.phase = "Failed",
                      !.status.message = component \o " reconciliation failed: " \o e]
  /\ result' = Result(RequeueFailure, e)

\* Reconcile's error path: updateStatus sets Failed and the message, then writes.
FailWith(component, e) ==
  /\ pc' = "updateStatus"
  /\ ms' = [ms EXCEPT !.status.phase = "Failed",
                      !.status.message = component \o " reconciliation failed: " \o e]
  /\ result' = Result(RequeueFailure, e)

-----------------------------------------------------------------------------
(* Reconcile (monitorstack_controller.go).                                 *)

\* stepPrometheus, had the collector's convergence begun at the workload.
stepPrometheus_FromWorkload(m) ==
  IF m.spec.prometheus.enabled THEN "createPrometheusDeployment_Get"
  ELSE "cleanupPrometheusDeployment_Get"

\* Steps 5 and 6 of Reconcile: converge an enabled component, clean up a disabled one.
stepPrometheus(m) ==
  IF m.spec.prometheus.enabled THEN "createPrometheusConfigMap_Get"
  ELSE "cleanupPrometheusDeployment_Get"

stepGrafana(m) ==
  IF m.spec.grafana.enabled
  THEN IF Len(m.spec.grafana.datasources) > 0
       THEN "createGrafanaDatasourcesConfigMap_Get"
       ELSE "createGrafanaDeployment_Get"
  ELSE "cleanupGrafanaDeployment_Get"

\* afterFetch, had the finalizer step not stopped the invocation.
afterFetch_NoFinalizerStop(m) ==
  IF m.deleting THEN "cleanupPrometheusDeployment_Get"
  ELSE IF m.status.phase = "" THEN "InitStatus"
  ELSE stepPrometheus(m)

\* afterFetch, had an unset phase been left for the aggregator.
afterFetch_NoStatusInit(m) ==
  IF m.deleting THEN "cleanupPrometheusDeployment_Get"
  ELSE IF ~m.finalizer THEN "AddFinalizer"
  ELSE stepPrometheus(m)

\* afterFetch, had the deletion check been missing.
afterFetch_NoDeletionCheck(m) ==
  IF ~m.finalizer THEN "AddFinalizer"
  ELSE IF m.status.phase = "" THEN "InitStatus"
  ELSE stepPrometheus(m)

\* Steps 2 to 4 of Reconcile: where the invocation goes once the object is fetched.
afterFetch(m) ==
  IF m.deleting THEN "cleanupPrometheusDeployment_Get"
  ELSE IF ~m.finalizer THEN "AddFinalizer"
  ELSE IF m.status.phase = "" THEN "InitStatus"
  ELSE stepPrometheus(m)

\* fetchFailed, had not-found been returned like any other error.
fetchFailed_NotFoundIsError(o) == Result(0, errText(o))

\* fetchFailed, had a vanished stack been rechecked at the success interval.
fetchFailed_NotFoundRequeues(o) ==
  IF o = "notfound" THEN Result(RequeueSuccess, "") ELSE Result(0, errText(o))

\* What Reconcile returns when the fetch fails: not-found is success.
fetchFailed(o) == IF o = "notfound" THEN Result(0, "") ELSE Result(0, errText(o))

\* A new invocation for the stack (the framework serializes them per object).
Trigger ==
  /\ pc \in {"idle", "done"}
  /\ pc' = "Reconcile"
  /\ ms' = MonitorStack
  /\ fetched' = MonitorStack
  /\ calls' = <<>>
  /\ result' = Result(0, "")
  /\ stale' = FALSE
  /\ msStale' = FALSE
  /\ second' = (pc = "done" /\ result = Result(RequeueSuccess, "") /\ ~disturbed)
  /\ disturbed' = FALSE
  /\ UNCHANGED <<stack, store, events>>

\* Step 1: fetch the object and dispatch.
Reconcile ==
  /\ pc = "Reconcile"
  /\ \E o \in Outcomes(stackGetNatural) :
       /\ Api("Get", StackKey, stackGetNatural, o)
       /\ IF o = "ok"
          THEN LET m == [name |-> StackName, deleting |-> stack.deleting,
                         finalizer |-> stack.finalizer, spec |-> stack.spec,
                         status |-> stack.status]
               IN /\ ms' = m
                  /\ fetched' = m
                  /\ pc' = afterFetch(m)
                  /\ result' = result
          ELSE Return(fetchFailed(o)) /\ UNCHANGED fetched
  /\ msStale' = FALSE
  /\ UNCHANGED <<stack, store, stale, second, disturbed>>

\* Step 3: add the finalizer, persist, and stop.
AddFinalizer ==
  /\ pc = "AddFinalizer"
  /\ \E o \in Outcomes(stackUpdateNatural) :
       /\ Api("Update", StackKey, stackUpdateNatural, o)
       /\ stack' = IF o = "ok"
                   THEN [stack EXCEPT !.finalizer = TRUE, !.spec = ms.spec]
                   ELSE stack
       /\ ms' = [ms EXCEPT !.finalizer = TRUE]
       /\ pc' = "done"
       /\ result' = Result(0, IF o = "ok" THEN "" ELSE errText(o))
  /\ UNCHANGED <<store, stale, msStale, env>>

\* Step 4: an unset phase becomes Pending and is persisted.
InitStatus ==
  /\ pc = "InitStatus"
  /\ \E o \in Outcomes(stackUpdateNatural) :
       LET m == [ms EXCEPT !.status.phase = "Pending",
                           !.status.message = "Initializing MonitorStack"]
       IN /\ Api("StatusUpdate", StackKey, stackUpdateNatural, o)
          /\ ms' = m
          /\ stack' = IF o = "ok" THEN [stack EXCEPT !.status = m.status] ELSE stack
          /\ pc' = IF o = "ok" THEN stepPrometheus(m) ELSE "done"
          /\ result' = IF o = "ok" THEN result ELSE Result(0, errText(o))
  /\ UNCHANGED <<store, stale, msStale, env>>

\* Get, then Create when absent, else merge and Update.
createOrUpdate(p, key, desired, merged, next, component, what) ==
  \/ /\ pc = p \o "_Get"
     /\ \E o \in Outcomes(getNatural(key)) :
          /\ Api("Get", key, getNatural(key), o)
          /\ CASE o = "ok" -> Continue(p \o "_Update")
               [] o = "notfound" -> Continue(p \o "_Create")
               [] OTHER -> FailWith(component, what \o errText(o))
     /\ stale' = FALSE
     /\ UNCHANGED <<stack, store, msStale, env>>
  \/ /\ pc = p \o "_Create"
     /\ \E o \in Outcomes(createNatural(key)) :
          /\ Api("Create", key, createNatural(key), o)
          /\ store' = IF o = "ok" THEN [store EXCEPT ![key] = desired] ELSE store
          /\ IF o = "ok" THEN Continue(next)
             ELSE FailWith(component, what \o errText(o))
     /\ UNCHANGED <<stack, stale, msStale, env>>
  \/ /\ pc = p \o "_Update"
     /\ \E o \in Outcomes(updateNatural(key)) :
          /\ Api("Update", key, updateNatural(key), o)
          /\ store' = IF o = "ok"
                      THEN [store EXCEPT ![key] = merged]
                      ELSE store
          /\ IF o = "ok" THEN Continue(next)
             ELSE FailWith(component, what \o errText(o))
     /\ stale' = FALSE
     /\ UNCHANGED <<stack, msStale, env>>

createPrometheusConfigMap ==
  createOrUpdate("createPrometheusConfigMap", PromCM,
                 desiredPrometheusConfigMap(ms),
                 mergeConfigMap(store[PromCM], desiredPrometheusConfigMap(ms)),
                 IF ms.spec.prometheus.storage.size # ""
                 THEN "createPrometheusPVC_Get" ELSE "createPrometheusDeployment_Get",
                 "Prometheus", "failed to create Prometheus ConfigMap: ")

\* createPrometheusPVC, had it updated an existing claim like the other children.
createPrometheusPVC_Updates ==
  createOrUpdate("createPrometheusPVC", PromPVC,
                 desiredPrometheusPVC(ms),
                 [store[PromPVC] EXCEPT !.spec = desiredPrometheusPVC(ms).spec],
                 "createPrometheusDeployment_Get",
                 "Prometheus", "failed to create Prometheus PVC: ")

\* The claim is created when absent and never updated.
createPrometheusPVC ==
  \/ /\ pc = "createPrometheusPVC_Get"
     /\ \E o \in Outcomes(getNatural(PromPVC)) :
          /\ Api("Get", PromPVC, getNatural(PromPVC), o)
          /\ CASE o = "ok" -> Continue("createPrometheusDeployment_Get")
               [] o = "notfound" -> Continue("createPrometheusPVC_Create")
               [] OTHER -> FailWith("Prometheus",
                                    "failed to create Prometheus PVC: " \o errText(o))
     /\ UNCHANGED <<stack, store, stale, msStale, env>>
  \/ /\ pc = "createPrometheusPVC_Create"
     /\ \E o \in Outcomes(createNatural(PromPVC)) :
          /\ Api("Create", PromPVC, createNatural(PromPVC), o)
          /\ store' = IF o = "ok"
                      THEN [store EXCEPT ![PromPVC] = desiredPrometheusPVC(ms)]
                      ELSE store
          /\ IF o = "ok" THEN Continue("createPrometheusDeployment_Get")
             ELSE FailWith("Prometheus",
                           "failed to create Prometheus PVC: " \o errText(o))
     /\ UNCHANGED <<stack, stale, msStale, env>>

createPrometheusDeployment ==
  createOrUpdate("createPrometheusDeployment", PromDep,
                 buildPrometheusDeployment(ms),
                 mergeDeployment(store[PromDep], buildPrometheusDeployment(ms)),
                 "createPrometheusService_Get",
                 "Prometheus", "failed to create Prometheus Deployment: ")

createPrometheusService ==
  createOrUpdate("createPrometheusService", PromSvc,
                 buildPrometheusService(ms),
                 mergeService(store[PromSvc], buildPrometheusService(ms)),
                 "reconcilePrometheus",
                 "Prometheus", "failed to create Prometheus Service: ")

createGrafanaDatasourcesConfigMap ==
  createOrUpdate("createGrafanaDatasourcesConfigMap", GrafCM,
                 desiredGrafanaDatasourcesConfigMap(ms),
                 mergeConfigMap(store[GrafCM], desiredGrafanaDatasourcesConfigMap(ms)),
                 "createGrafanaDeployment_Get",
                 "Grafana", "failed to create Grafana datasources ConfigMap: ")

createGrafanaDeployment ==
  createOrUpdate("createGrafanaDeployment", GrafDep,
                 buildGrafanaDeployment(ms),
                 mergeDeployment(store[GrafDep], buildGrafanaDeployment(ms)),
                 "createGrafanaService_Get",
                 "Grafana", "failed to create Grafana Deployment: ")

createGrafanaService ==
  createOrUpdate("createGrafanaService", GrafSvc,
                 buildGrafanaService(ms),
                 mergeService(store[GrafSvc], buildGrafanaService(ms)),
                 "reconcileGrafana",
                 "Grafana", "failed to create Grafana Service: ")

\* The component status read back from the workload.
\* readBack, had readiness been taken from the replica count.
readBack_FromReplicas(old, deployment, serviceName, port) ==
  IF deployment.replicas > 0
  THEN ComponentStatus(TRUE, deployment.replicas, "Ready",
                       "http://" \o serviceName \o ":" \o ToString(port))
  ELSE ComponentStatus(FALSE, deployment.replicas, "Not Ready", old.endpoint)

readBack(old, deployment, serviceName, port) ==
  IF deployment.readyReplicas > 0
  THEN ComponentStatus(TRUE, deployment.replicas, "Ready",
                       "http://" \o serviceName \o ":" \o ToString(port))
  ELSE ComponentStatus(FALSE, deployment.replicas, "Not Ready", old.endpoint)

\* The tail of reconcilePrometheus: fetch the workload and record its readiness.
reconcilePrometheus ==
  /\ pc = "reconcilePrometheus"
  /\ \E o \in Outcomes(getNatural(PromDep)) :
       /\ Api("Get", PromDep, getNatural(PromDep), o)
       /\ IF o = "ok"
          THEN /\ ms' = [ms EXCEPT !.status.prometheusStatus =
                           readBack(@, store[PromDep],
                                    getPrometheusServiceName(ms.name),
                                    ms.spec.prometheus.service.port)]
               /\ pc' = stepGrafana(ms)
               /\ result' = result
          ELSE FailWith("Prometheus", errText(o))
  /\ UNCHANGED <<stack, store, stale, msStale, env>>

reconcileGrafana ==
  /\ pc = "reconcileGrafana"
  /\ \E o \in Outcomes(getNatural(GrafDep)) :
       /\ Api("Get", GrafDep, getNatural(GrafDep), o)
       /\ IF o = "ok"
          THEN /\ ms' = [ms EXCEPT !.status.grafanaStatus =
                           readBack(@, store[GrafDep],
                                    getGrafanaServiceName(ms.name),
                                    ms.spec.grafana.service.port)]
               /\ pc' = "updateOverallStatus"
               /\ result' = result
          ELSE FailWith("Grafana", errText(o))
  /\ UNCHANGED <<stack, store, stale, msStale, env>>

-----------------------------------------------------------------------------
(* Cleanup and the deletion protocol.                                      *)

deleteNatural(key) == IF store[key].present THEN "ok" ELSE "notfound"

\* Get the child; Delete it only when the Get succeeded.  Neither error is kept.
\* `next` and `res` are where the invocation stands once this child is done with.
cleanupChild(p, key, next, res) ==
  \/ /\ pc = p \o "_Get"
     /\ \E o \in Outcomes(getNatural(key)) :
          /\ Api("Get", key, getNatural(key), o)
          /\ pc' = IF o = "ok" THEN p \o "_Delete" ELSE next
          /\ result' = IF o = "ok" THEN result ELSE res
     /\ UNCHANGED <<stack, store, ms, stale, msStale, env>>
  \/ /\ pc = p \o "_Delete"
     /\ \E o \in Outcomes(deleteNatural(key)) :
          /\ Api("Delete", key, deleteNatural(key), o)
          /\ store' = IF o = "ok" THEN [store EXCEPT ![key] = NoObj] ELSE store
          /\ pc' = next
          /\ result' = res
     /\ UNCHANGED <<stack, ms, stale, msStale, env>>

\* What cleanupPrometheusResources and cleanupGrafanaResources return: always nil.
cleanupPrometheusError == ""

cleanupGrafanaError == ""

\* After a cleanup: handleDeletion returns on an error with a 30 s requeue, while
\* Reconcile only logs it and goes on.
\* afterCleanupPrometheus, had the deletion gone on to the finalizer at once.
afterCleanupPrometheus_SkipsGrafana(m, err) ==
  IF m.deleting THEN "handleDeletion" ELSE stepGrafana(m)

afterCleanupPrometheus(m, err) ==
  IF m.deleting
  THEN IF err # "" THEN "done" ELSE "cleanupGrafanaDeployment_Get"
  ELSE stepGrafana(m)

\* afterCleanupGrafana, had the deletion stopped short of the finalizer.
afterCleanupGrafana_StopsBeforeFinalizer(m, err) ==
  IF m.deleting THEN "done" ELSE "updateOverallStatus"

afterCleanupGrafana(m, err) ==
  IF m.deleting
  THEN IF err # "" THEN "done" ELSE "handleDeletion"
  ELSE "updateOverallStatus"

resultAfterCleanup(m, err) ==
  IF m.deleting /\ err # "" THEN Result(RequeueDeletion, err) ELSE result

cleanupPrometheusResources ==
  \/ cleanupChild("cleanupPrometheusDeployment", PromDep,
                  "cleanupPrometheusService_Get", result)
  \/ cleanupChild("cleanupPrometheusService", PromSvc,
                  "cleanupPrometheusConfigMap_Get", result)
  \/ cleanupChild("cleanupPrometheusConfigMap", PromCM,
                  afterCleanupPrometheus(ms, cleanupPrometheusError),
                  resultAfterCleanup(ms, cleanupPrometheusError))

\* cleanupGrafanaResources, had it left the Service alone.
cleanupGrafanaResources_DeploymentOnly ==
  cleanupChild("cleanupGrafanaDeployment", GrafDep,
               afterCleanupGrafana(ms, cleanupGrafanaError),
               resultAfterCleanup(ms, cleanupGrafanaError))

cleanupGrafanaResources ==
  \/ cleanupChild("cleanupGrafanaDeployment", GrafDep,
                  "cleanupGrafanaService_Get", result)
  \/ cleanupChild("cleanupGrafanaService", GrafSvc,
                  afterCleanupGrafana(ms, cleanupGrafanaError),
                  resultAfterCleanup(ms, cleanupGrafanaError))

\* The end of handleDeletion: remove the finalizer and persist.  With no finalizer
\* left on an object marked for deletion, the server removes the object.
handleDeletion ==
  /\ pc = "handleDeletion"
  /\ \E o \in Outcomes(stackUpdateNatural) :
       /\ Api("Update", StackKey, stackUpdateNatural, o)
       /\ stack' = IF o = "ok"
                   THEN IF stack.deleting THEN NoStack
                        ELSE [stack EXCEPT !.finalizer = FALSE, !.spec = ms.spec]
                   ELSE stack
       /\ ms' = [ms EXCEPT !.finalizer = FALSE]
       /\ pc' = "done"
       /\ result' = Result(0, IF o = "ok" THEN "" ELSE errText(o))
  /\ UNCHANGED <<store, stale, msStale, env>>

-----------------------------------------------------------------------------
(* Status.                                                                 *)

\* updateStatus: write the status FailWith prepared; the write's error is dropped.
updateStatus ==
  /\ pc = "updateStatus"
  /\ \E o \in Outcomes(stackUpdateNatural) :
       /\ Api("StatusUpdate", StackKey, stackUpdateNatural, o)
       /\ stack' = IF o = "ok" THEN [stack EXCEPT !.status = ms.status] ELSE stack
  /\ pc' = "done"
  /\ UNCHANGED <<store, ms, result, stale, msStale, env>>

\* overallStatus, had it reported the wait as phase Updating.
overallStatus_Updating(m) ==
  LET prometheusReady == ~m.spec.prometheus.enabled \/ m.status.prometheusStatus.ready
      grafanaReady == ~m.spec.grafana.enabled \/ m.status.grafanaStatus.ready
  IN IF prometheusReady /\ grafanaReady
     THEN [m.status EXCEPT !.phase = "Ready",
                           !.message = "All enabled components are ready"]
     ELSE [m.status EXCEPT !.phase = "Updating",
                           !.message = "Waiting for components to be ready"]

\* overallStatus, had it required readiness of disabled components too.
overallStatus_IgnoresEnabled(m) ==
  IF m.status.prometheusStatus.ready /\ m.status.grafanaStatus.ready
  THEN [m.status EXCEPT !.phase = "Ready",
                        !.message = "All enabled components are ready"]
  ELSE [m.status EXCEPT !.phase = "Pending",
                        !.message = "Waiting for components to be ready"]

\* The aggregate of updateOverallStatus.
overallStatus(m) ==
  LET prometheusReady == ~m.spec.prometheus.enabled \/ m.status.prometheusStatus.ready
      grafanaReady == ~m.spec.grafana.enabled \/ m.status.grafanaStatus.ready
  IN IF prometheusReady /\ grafanaReady
     THEN [m.status EXCEPT !.phase = "Ready",
                           !.message = "All enabled components are ready"]
     ELSE [m.status EXCEPT !.phase = "Pending",
                           !.message = "Waiting for components to be ready"]

\* Step 7: aggregate, persist, and ask for the next pass.
updateOverallStatus ==
  /\ pc = "updateOverallStatus"
  /\ \E o \in Outcomes(stackUpdateNatural) :
       LET m == [ms EXCEPT !.status = overallStatus(ms)]
       IN /\ Api("StatusUpdate", StackKey, stackUpdateNatural, o)
          /\ ms' = m
          /\ stack' = IF o = "ok" THEN [stack EXCEPT !.status = m.status] ELSE stack
          /\ result' = IF o = "ok" THEN Result(RequeueSuccess, "")
                       ELSE Result(0, errText(o))
  /\ pc' = "done"
  /\ UNCHANGED <<store, stale, msStale, env>>

-----------------------------------------------------------------------------
(* The environment: the user, the workload controller, the garbage         *)
(* collector.                                                              *)

\* The invocation holds a fetched copy of the MonitorStack.
InFlight == pc \notin {"idle", "Reconcile", "done"}

\* The child whose fetched copy the invocation is about to Update.
updateSite(key) ==
  CASE key = PromCM -> "createPrometheusConfigMap_Update"
    [] key = PromDep -> "createPrometheusDeployment_Update"
    [] key = PromSvc -> "createPrometheusService_Update"
    [] key = GrafCM -> "createGrafanaDatasourcesConfigMap_Update"
    [] key = GrafDep -> "createGrafanaDeployment_Update"
    [] key = GrafSvc -> "createGrafanaService_Update"
    [] OTHER -> "none"

External ==
  /\ events < MaxEvents
  /\ events' = events + 1
  /\ disturbed' = TRUE
  /\ UNCHANGED <<pc, ms, fetched, calls, result, second>>

\* The user edits the spec: enables or disables a component.
UserUpdateSpec ==
  /\ External
  /\ stack.present /\ ~stack.deleting
  /\ \/ stack' = [stack EXCEPT !.spec.prometheus.enabled = ~@]
     \/ stack' = [stack EXCEPT !.spec.grafana.enabled = ~@]
  /\ msStale' = (msStale \/ InFlight)
  /\ UNCHANGED <<store, stale>>

\* The user deletes the stack: with a finalizer the object is only marked.
UserDelete ==
  /\ External
  /\ stack.present /\ ~stack.deleting
  /\ stack' = IF stack.finalizer THEN [stack EXCEPT !.deleting = TRUE] ELSE NoStack
  /\ msStale' = (msStale \/ InFlight)
  /\ UNCHANGED <<store, stale>>

\* The workload controller reports replicas of a Deployment.
DeploymentStatus ==
  /\ External
  /\ \E key \in {PromDep, GrafDep}, r \in {<<1, 0>>, <<1, 1>>} :
       /\ store[key].present
       /\ <<store[key].replicas, store[key].readyReplicas>> # r
       /\ store' = [store EXCEPT ![key].replicas = r[1], ![key].readyReplicas = r[2]]
       /\ stale' = (stale \/ pc = updateSite(key))
  /\ UNCHANGED <<stack, msStale>>

\* Someone else deletes a child.
ExternalDelete ==
  /\ External
  /\ \E key \in ChildKeys :
       /\ store[key].present
       /\ store' = [store EXCEPT ![key] = NoObj]
  /\ UNCHANGED <<stack, stale, msStale>>

\* Children whose owner is gone are collected.
GarbageCollect ==
  /\ ~stack.present
  /\ \E key \in ChildKeys :
       /\ store[key].present /\ store[key].owner = StackName
       /\ store' = [store EXCEPT ![key] = NoObj]
  /\ disturbed' = TRUE
  /\ UNCHANGED <<stack, pc, ms, fetched, calls, result, stale, msStale, events, second>>

-----------------------------------------------------------------------------
Next ==
  \/ Trigger
  \/ Reconcile
  \/ AddFinalizer
  \/ InitStatus
  \/ createPrometheusConfigMap
  \/ createPrometheusPVC
  \/ createPrometheusDeployment
  \/ createPrometheusService
  \/ reconcilePrometheus
  \/ createGrafanaDatasourcesConfigMap
  \/ createGrafanaDeployment
  \/ createGrafanaService
  \/ reconcileGrafana
  \/ cleanupPrometheusResources
  \/ cleanupGrafanaResources
  \/ handleDeletion
  \/ updateStatus
  \/ updateOverallStatus
  \/ UserUpdateSpec
  \/ UserDelete
  \/ DeploymentStatus
  \/ ExternalDelete
  \/ GarbageCollect

Spec == Init /\ [][Next]_vars

-----------------------------------------------------------------------------
(* The engine under edits of the storage settings: a stack that has its    *)
(* finalizer and an initialised status, whose user changes the size or the *)
(* class of the collector's storage and enables or disables components     *)
(* between and during invocations.                                         *)

StorageSizes == {"", "10Gi", "20Gi"}

StorageClasses == {"", "fast"}

InitStorage ==
  /\ stack \in {[present |-> TRUE, deleting |-> FALSE, finalizer |-> TRUE,
                 spec |-> [MonitorStackSpec(TRUE, size, ge, <<>>)
                             EXCEPT !.prometheus.storage.storageClass = class],
                 status |-> [MonitorStackStatus EXCEPT
                               !.phase = "Pending",
                               !.message = "Initializing MonitorStack"]] :
                  size \in StorageSizes, class \in StorageClasses, ge \in BOOLEAN}
  /\ store = [k \in ChildKeys |-> NoObj]
  /\ pc = "idle"
  /\ ms = MonitorStack
  /\ fetched = MonitorStack
  /\ calls = <<>>
  /\ result = Result(0, "")
  /\ stale = FALSE
  /\ msStale = FALSE
  /\ events = 0
  /\ second = FALSE
  /\ disturbed = FALSE

\* The user edits the storage settings of the collector.
UserUpdateStorage ==
  /\ External
  /\ stack.present /\ ~stack.deleting
  /\ \/ \E size \in StorageSizes :
          /\ size # stack.spec.prometheus.storage.size
          /\ stack' = [stack EXCEPT !.spec.prometheus.storage.size = size]
     \/ \E class \in StorageClasses :
          /\ class # stack.spec.prometheus.storage.storageClass
          /\ stack' = [stack EXCEPT !.spec.prometheus.storage.storageClass = class]
  /\ msStale' = (msStale \/ InFlight)
  /\ UNCHANGED <<store, stale>>

NextStorage ==
  \/ Trigger
  \/ Reconcile
  \/ createPrometheusConfigMap
  \/ createPrometheusPVC
  \/ createPrometheusDeployment
  \/ createPrometheusService
  \/ reconcilePrometheus
  \/ createGrafanaDeployment
  \/ createGrafanaService
  \/ reconcileGrafana
  \/ cleanupPrometheusResources
  \/ cleanupGrafanaResources
  \/ updateStatus
  \/ updateOverallStatus
  \/ UserUpdateStorage
  \/ UserUpdateSpec
  \/ ExternalDelete

SpecStorage == InitStorage /\ [][NextStorage]_vars

-----------------------------------------------------------------------------
(* The engine under external edits of its children: a stack with both      *)
(* components, storage and a datasource, whose children are annotated,     *)
(* relabelled, orphaned or given another selector by other actors between  *)
(* and during invocations, and whose workloads report their replicas or    *)
(* are scaled to two replicas, which the workload then reports.            *)

InitMerge ==
  /\ stack = [present |-> TRUE, deleting |-> FALSE, finalizer |-> TRUE,
              spec |-> MonitorStackSpec(TRUE, "10Gi", TRUE, <<Datasource>>),
              status |-> [MonitorStackStatus EXCEPT
                            !.phase = "Pending",
                            !.message = "Initializing MonitorStack"]]
  /\ store = [k \in ChildKeys |-> NoObj]
  /\ pc = "idle"
  /\ ms = MonitorStack
  /\ fetched = MonitorStack
  /\ calls = <<>>
  /\ result = Result(0, "")
  /\ stale = FALSE
  /\ msStale = FALSE
  /\ events = 0
  /\ second = FALSE
  /\ disturbed = FALSE

\* The labels of an object with one more label, set by someone else.
withLabel(labels) ==
  [k \in DOMAIN labels \cup {"team"} |-> IF k = "team" THEN "ops" ELSE labels[k]]

\* Another actor writes a child: any write moves its resource version, so a
\* copy fetched before it is stale.
ExternalEdit ==
  /\ External
  /\ \E key \in ChildKeys :
       /\ store[key].present
       /\ \/ /\ store[key].annotations = {}
             /\ store' = [store EXCEPT ![key].annotations = {"example.com/note"}]
          \/ /\ store[key].owner # ""
             /\ store' = [store EXCEPT ![key].owner = ""]
          \/ /\ "team" \notin DOMAIN store[key].labels
             /\ store' = [store EXCEPT ![key].labels = withLabel(@)]
          \/ /\ key.kind = "Service"
             /\ store[key].spec.selector = store[key].labels
             /\ store' = [store EXCEPT ![key].spec.selector = withLabel(@)]
          \/ /\ key.kind = "Deployment"
             /\ store[key].spec.replicas = 1
             /\ store' = [store EXCEPT ![key].spec.replicas = 2,
                                       ![key].replicas = 2]
       /\ stale' = (stale \/ pc = updateSite(key))
  /\ UNCHANGED <<stack, msStale>>

NextMerge ==
  \/ Trigger
  \/ Reconcile
  \/ createPrometheusConfigMap
  \/ createPrometheusPVC
  \/ createPrometheusDeployment
  \/ createPrometheusService
  \/ reconcilePrometheus
  \/ createGrafanaDatasourcesConfigMap
  \/ createGrafanaDeployment
  \/ createGrafanaService
  \/ reconcileGrafana
  \/ updateStatus
  \/ updateOverallStatus
  \/ ExternalEdit
  \/ DeploymentStatus

SpecMerge == InitMerge /\ [][NextMerge]_vars

-----------------------------------------------------------------------------
(* The engine and the labels of a service: a stack with both components    *)
(* whose services may carry labels of their own (Service.Labels), and      *)
(* whose user sets a stack-wide label (Spec.Labels) between or during      *)
(* invocations.                                                            *)

InitSelector ==
  /\ stack \in {[present |-> TRUE, deleting |-> FALSE, finalizer |-> TRUE,
                 spec |-> [MonitorStackSpec(TRUE, "", TRUE, <<>>) EXCEPT
                             !.prometheus.service.labels = pl,
                             !.grafana.service.labels = gl],
                 status |-> [MonitorStackStatus EXCEPT
                               !.phase = "Pending",
                               !.message = "Initializing MonitorStack"]] :
                  pl \in UNION {[D -> {"web"}] : D \in SUBSET {"tier"}},
                  gl \in UNION {[D -> {"web"}] : D \in SUBSET {"tier"}}}
  /\ store = [k \in ChildKeys |-> NoObj]
  /\ pc = "idle"
  /\ ms = MonitorStack
  /\ fetched = MonitorStack
  /\ calls = <<>>
  /\ result = Result(0, "")
  /\ stale = FALSE
  /\ msStale = FALSE
  /\ events = 0
  /\ second = FALSE
  /\ disturbed = FALSE

\* The user sets a stack-wide label.
UserUpdateLabels ==
  /\ External
  /\ stack.present /\ ~stack.deleting
  /\ DOMAIN stack.spec.labels = {}
  /\ stack' = [stack EXCEPT !.spec.labels = [k \in {"team"} |-> "ops"]]
  /\ msStale' = (msStale \/ InFlight)
  /\ UNCHANGED <<store, stale>>

NextSelector ==
  \/ Trigger
  \/ Reconcile
  \/ createPrometheusConfigMap
  \/ createPrometheusDeployment
  \/ createPrometheusService
  \/ reconcilePrometheus
  \/ createGrafanaDeployment
  \/ createGrafanaService
  \/ reconcileGrafana
  \/ updateStatus
  \/ updateOverallStatus
  \/ UserUpdateLabels

SpecSelector == InitSelector /\ [][NextSelector]_vars

-----------------------------------------------------------------------------
(* The engine under fairness: the framework keeps re-triggering Reconcile  *)
(* and every started invocation runs on; a workload that exists becomes    *)
(* ready and stays ready; API calls fail at most MaxEvents times in all,   *)
(* so they eventually stop failing; the user may mark the stack for        *)
(* deletion at any time, or never.                                         *)

InitLive ==
  /\ stack \in {[present |-> TRUE, deleting |-> FALSE, finalizer |-> FALSE,
                 spec |-> MonitorStackSpec(pe, "10Gi", ge, <<Datasource>>),
                 status |-> MonitorStackStatus] : pe \in BOOLEAN, ge \in BOOLEAN}
  /\ store = [k \in ChildKeys |-> NoObj]
  /\ pc = "idle"
  /\ ms = MonitorStack
  /\ fetched = MonitorStack
  /\ calls = <<>>
  /\ result = Result(0, "")
  /\ stale = FALSE
  /\ msStale = FALSE
  /\ events = 0
  /\ second = FALSE
  /\ disturbed = FALSE

\* The workload controller brings a Deployment to one ready replica.
WorkloadReady ==
  /\ \E key \in {PromDep, GrafDep} :
       /\ store[key].present
       /\ store[key].readyReplicas = 0
       /\ store' = [store EXCEPT ![key].replicas = 1, ![key].readyReplicas = 1]
       /\ stale' = (stale \/ pc = updateSite(key))
  /\ disturbed' = TRUE
  /\ UNCHANGED <<stack, pc, ms, fetched, calls, result, msStale, events, second>>

\* The framework and the invocation it runs.
EngineLive ==
  \/ Trigger
  \/ Reconcile
  \/ AddFinalizer
  \/ InitStatus
  \/ createPrometheusConfigMap
  \/ createPrometheusPVC
  \/ createPrometheusDeployment
  \/ createPrometheusService
  \/ reconcilePrometheus
  \/ createGrafanaDatasourcesConfigMap
  \/ createGrafanaDeployment
  \/ createGrafanaService
  \/ reconcileGrafana
  \/ cleanupPrometheusResources
  \/ cleanupGrafanaResources
  \/ handleDeletion
  \/ updateStatus
  \/ updateOverallStatus

NextLive ==
  \/ EngineLive
  \/ WorkloadReady
  \/ UserDelete

SpecLive ==
  /\ InitLive /\ [][NextLive]_vars
  /\ WF_vars(EngineLive)
  /\ WF_vars(WorkloadReady)

-----------------------------------------------------------------------------
(* Validation and defaulting on their own: the two functions applied to    *)
(* specs as a user may write them, unset fields included.  `fetched` keeps *)
(* the spec as written, `ms` is the object the functions work on, `events` *)
(* counts the applications of setDefaultValues, and `result` holds what    *)
(* validateMonitorStack returned last.                                     *)

\* Bound: how often setDefaultValues is applied to one object.
MaxApplications == 2

\* Values of ServiceSpec.Port and ServiceSpec.NodePort (int32) around the limits.
Ports == {-1, 0, 1, 65535, 65536}

NodePorts == {-1, 0, 29999, 30000, 32767, 32768}

ServiceTypes == {"", "ClusterIP", "NodePort"}

\* Every type with every port, and every node port under each type.
ServiceInputs ==
  {[type |-> ty, port |-> p, nodePort |-> 0] : ty \in ServiceTypes, p \in Ports}
  \cup
  {[type |-> ty, port |-> 8080, nodePort |-> np] : ty \in ServiceTypes, np \in NodePorts}

ResourceRequirements(cpu, memory) ==
  [limits |-> [cpu |-> "", memory |-> ""],
   requests |-> [cpu |-> cpu, memory |-> memory]]

PrometheusInputs ==
  {[enabled |-> e, image |-> i, tag |-> t,
    resources |-> ResourceRequirements(c, m),
    storage |-> [size |-> "", storageClass |-> ""],
    service |-> svc,
    config |-> "", retention |-> r] :
     e \in BOOLEAN, i \in {"", "quay.io/prometheus"}, t \in {"", "v2.45.0"},
     c \in {"", "500m"}, m \in {"", "1Gi"},
     svc \in ServiceInputs, r \in {"", "30d"}}

DatasourceLists ==
  {<<>>, <<Datasource>>,
   <<Datasource, [Datasource EXCEPT !.name = ""]>>,
   <<[Datasource EXCEPT !.type = ""]>>,
   <<[Datasource EXCEPT !.url = ""], Datasource>>}

GrafanaInputs ==
  {[enabled |-> e, image |-> i, tag |-> t,
    resources |-> ResourceRequirements(c, m),
    service |-> svc,
    adminPassword |-> pw, datasources |-> ds] :
     e \in BOOLEAN, i \in {"", "quay.io/grafana"}, t \in {"", "10.0.0"},
     c \in {"", "500m"}, m \in {"", "1Gi"},
     svc \in ServiceInputs, pw \in {"", "s3cret"}, ds \in DatasourceLists}

\* A component with every field unset, and one written out in full.
UnsetPrometheus ==
  [enabled |-> FALSE, image |-> "", tag |-> "",
   resources |-> ResourceRequirements("", ""),
   storage |-> [size |-> "", storageClass |-> ""],
   service |-> [type |-> "", port |-> 0, nodePort |-> 0],
   config |-> "", retention |-> ""]

UnsetGrafana ==
  [enabled |-> FALSE, image |-> "", tag |-> "",
   resources |-> ResourceRequirements("", ""),
   service |-> [type |-> "", port |-> 0, nodePort |-> 0],
   adminPassword |-> "", datasources |-> <<>>]

FullPrometheus ==
  [enabled |-> TRUE, image |-> "quay.io/prometheus", tag |-> "v2.45.0",
   resources |-> ResourceRequirements("500m", "1Gi"),
   storage |-> [size |-> "", storageClass |-> ""],
   service |-> [type |-> "NodePort", port |-> 8080, nodePort |-> 30090],
   config |-> "", retention |-> "30d"]

FullGrafana ==
  [enabled |-> TRUE, image |-> "quay.io/grafana", tag |-> "10.0.0",
   resources |-> ResourceRequirements("500m", "1Gi"),
   service |-> [type |-> "NodePort", port |-> 8080, nodePort |-> 30030],
   adminPassword |-> "s3cret", datasources |-> <<Datasource>>]

\* The specs handed to the two functions: one component varies over all its
\* inputs while the other is unset or written out in full; and each component
\* is either enabled with nothing else written, or written out and disabled.
NormalizerInputs ==
  {[prometheus |-> p, grafana |-> g, labels |-> <<>>] :
     p \in PrometheusInputs, g \in {UnsetGrafana, FullGrafana}}
  \cup
  {[prometheus |-> p, grafana |-> g, labels |-> <<>>] :
     p \in {UnsetPrometheus, FullPrometheus}, g \in GrafanaInputs}
  \cup
  {[prometheus |-> p, grafana |-> g, labels |-> <<>>] :
     p \in {[UnsetPrometheus EXCEPT !.enabled = TRUE],
            [FullPrometheus EXCEPT !.enabled = FALSE]},
     g \in {[UnsetGrafana EXCEPT !.enabled = TRUE],
            [FullGrafana EXCEPT !.enabled = FALSE]}}

InitNormalizer ==
  /\ ms \in {[MonitorStack EXCEPT !.spec = s] : s \in NormalizerInputs}
  /\ fetched = ms
  /\ stack = NoStack
  /\ store = [k \in ChildKeys |-> NoObj]
  /\ pc = "idle"
  /\ calls = <<>>
  /\ result = Result(0, "")
  /\ stale = FALSE
  /\ msStale = FALSE
  /\ events = 0
  /\ second = FALSE
  /\ disturbed = FALSE

\* validateMonitorStack(monitorStack): the object is only read.
callValidateMonitorStack ==
  /\ pc # "validateMonitorStack"
  /\ pc' = "validateMonitorStack"
  /\ result' = Result(0, validateMonitorStack(ms))
  /\ UNCHANGED <<stack, store, ms, fetched, calls, stale, msStale, events,
                 second, disturbed>>

\* setDefaultValues(monitorStack): the object is changed in place.
callSetDefaultValues ==
  /\ events < MaxApplications
  /\ events' = events + 1
  /\ pc' = "setDefaultValues"
  /\ ms' = setDefaultValues(ms)
  /\ UNCHANGED <<stack, store, fetched, calls, result, stale, msStale,
                 second, disturbed>>

NextNormalizer ==
  \/ callValidateMonitorStack
  \/ callSetDefaultValues

SpecNormalizer == InitNormalizer /\ [][NextNormalizer]_vars

-----------------------------------------------------------------------------
(* Naming on its own: the children of two stacks, `ms` and `fetched`       *)
(* standing for the two MonitorStack objects; `calls` receives the keys    *)
(* built for the first and for the second.                                 *)

\* Stack names, some a prefix of another, some ending like a child's name.
StackNames ==
  {"a", "ac", "acme", "acme-", "acme-prometheus", "acme-prometheus-config",
   "acme-prometheus-data", "acme-grafana", "acme-grafana-datasources",
   "prometheus", "grafana", "a-prometheus"}

\* Kind and name of every child the builders and create functions name.
childKeys(name) ==
  {Key("ConfigMap", getPrometheusConfigMapName(name)),
   Key("PersistentVolumeClaim", getPrometheusPVCName(name)),
   Key("Deployment", getPrometheusName(name)),
   Key("Service", getPrometheusServiceName(name)),
   Key("ConfigMap", getGrafanaDatasourcesConfigMapName(name)),
   Key("Deployment", getGrafanaName(name)),
   Key("Service", getGrafanaServiceName(name))}

InitNaming ==
  /\ ms \in {[MonitorStack EXCEPT !.name = n] : n \in StackNames}
  /\ fetched \in {[MonitorStack EXCEPT !.name = n] : n \in StackNames}
  /\ stack = NoStack
  /\ store = [k \in ChildKeys |-> NoObj]
  /\ pc = "idle"
  /\ calls = <<>>
  /\ result = Result(0, "")
  /\ stale = FALSE
  /\ msStale = FALSE
  /\ events = 0
  /\ second = FALSE
  /\ disturbed = FALSE

\* The names are computed for the first stack, then for the second.
nameChildren ==
  /\ Len(calls) < 2
  /\ calls' = Append(calls, childKeys(IF calls = <<>> THEN ms.name ELSE fetched.name))
  /\ pc' = "named"
  /\ UNCHANGED <<stack, store, ms, fetched, result, stale, msStale, events,
                 second, disturbed>>

NextNaming == nameChildren

SpecNaming == InitNaming /\ [][NextNaming]_vars

-----------------------------------------------------------------------------
(* The labels on their own: getLabels applied, for each component, to      *)
(* stacks whose user labels set any of the generated keys and keys of      *)
(* their own.  `ms` is the stack, `calls` the label sets built so far.     *)

Components == {"prometheus", "grafana"}

\* Keys a user may set: the generated ones and two that are not.
UserLabelKeys == IdentityKeys \cup {"team", "name"}

UserLabelValues == {"custom", "grafana"}

\* Spec.Labels: any map over some of the keys.
UserLabels == UNION {[D -> UserLabelValues] : D \in SUBSET UserLabelKeys}

InitLabels ==
  /\ ms \in {[MonitorStack EXCEPT !.spec.labels = u] : u \in UserLabels}
  /\ fetched = MonitorStack
  /\ stack = NoStack
  /\ store = [k \in ChildKeys |-> NoObj]
  /\ pc = "idle"
  /\ calls = <<>>
  /\ result = Result(0, "")
  /\ stale = FALSE
  /\ msStale = FALSE
  /\ events = 0
  /\ second = FALSE
  /\ disturbed = FALSE

\* The labels of one component's children are built.
buildLabels ==
  /\ \E component \in Components :
       /\ \A i \in DOMAIN calls : calls[i].component # component
       /\ calls' = Append(calls, [component |-> component,
                                  labels |-> getLabels(ms, component)])
  /\ pc' = "labelled"
  /\ UNCHANGED <<stack, store, ms, fetched, result, stale, msStale, events,
                 second, disturbed>>

NextLabels == buildLabels

SpecLabels == InitLabels /\ [][NextLabels]_vars

-----------------------------------------------------------------------------
(* Two stacks in one namespace: every variable of an invocation is a       *)
(* function of the stack's name, and the invocations of the two stacks     *)
(* interleave call by call over one store.  Each stack has its finalizer   *)
(* and a status; a stack in phase Ready was converged before, with both    *)
(* components, and then edited by its user.  No call fails on its own;     *)
(* `stale[n]` says the child stack n fetched was written since, and        *)
(* `disturbed` that a call was made while the other stack's invocation was *)
(* in flight.                                                              *)

TwoStacks == {"acme", "acme-prometheus"}

stackKey(name) == Key("MonitorStack", name)

AllChildKeys == UNION {childKeys(n) : n \in TwoStacks}

\* What the builders make for a stack, by key.
desiredChild(m, key) ==
  CASE key = Key("ConfigMap", getPrometheusConfigMapName(m.name)) ->
         desiredPrometheusConfigMap(m)
    [] key = Key("PersistentVolumeClaim", getPrometheusPVCName(m.name)) ->
         desiredPrometheusPVC(m)
    [] key = Key("Deployment", getPrometheusName(m.name)) ->
         buildPrometheusDeployment(m)
    [] key = Key("Service", getPrometheusServiceName(m.name)) ->
         buildPrometheusService(m)
    [] key = Key("ConfigMap", getGrafanaDatasourcesConfigMapName(m.name)) ->
         desiredGrafanaDatasourcesConfigMap(m)
    [] key = Key("Deployment", getGrafanaName(m.name)) ->
         buildGrafanaDeployment(m)
    [] key = Key("Service", getGrafanaServiceName(m.name)) ->
         buildGrafanaService(m)
    [] OTHER -> NoObj

\* The merge the create function of a kind applies before Update.
mergeChild(existing, desired, kind) ==
  CASE kind = "ConfigMap" -> mergeConfigMap(existing, desired)
    [] kind = "Deployment" -> mergeDeployment(existing, desired)
    [] kind = "Service" -> mergeService(existing, desired)
    [] OTHER -> existing

PlanStep(op, component, kind, name) ==
  [op |-> op, component |-> component, key |-> Key(kind, name)]

\* reconcilePrometheus when enabled, cleanupPrometheusResources when not.
prometheusPlan(m) ==
  IF m.spec.prometheus.enabled
  THEN <<PlanStep("apply", "Prometheus", "ConfigMap",
                  getPrometheusConfigMapName(m.name))>> \o
       (IF m.spec.prometheus.storage.size # ""
        THEN <<PlanStep("applyOnce", "Prometheus", "PersistentVolumeClaim",
                        getPrometheusPVCName(m.name))>>
        ELSE <<>>) \o
       <<PlanStep("apply", "Prometheus", "Deployment", getPrometheusName(m.name)),
         PlanStep("apply", "Prometheus", "Service", getPrometheusServiceName(m.name)),
         PlanStep("readBack", "Prometheus", "Deployment", getPrometheusName(m.name))>>
  ELSE <<PlanStep("cleanup", "Prometheus", "Deployment", getPrometheusName(m.name)),
         PlanStep("cleanup", "Prometheus", "Service", getPrometheusServiceName(m.name)),
         PlanStep("cleanup", "Prometheus", "ConfigMap",
                  getPrometheusConfigMapName(m.name))>>

\* reconcileGrafana when enabled, cleanupGrafanaResources when not.
grafanaPlan(m) ==
  IF m.spec.grafana.enabled
  THEN (IF Len(m.spec.grafana.datasources) > 0
        THEN <<PlanStep("apply", "Grafana", "ConfigMap",
                        getGrafanaDatasourcesConfigMapName(m.name))>>
        ELSE <<>>) \o
       <<PlanStep("apply", "Grafana", "Deployment", getGrafanaName(m.name)),
         PlanStep("apply", "Grafana", "Service", getGrafanaServiceName(m.name)),
         PlanStep("readBack", "Grafana", "Deployment", getGrafanaName(m.name))>>
  ELSE <<PlanStep("cleanup", "Grafana", "Deployment", getGrafanaName(m.name)),
         PlanStep("cleanup", "Grafana", "Service", getGrafanaServiceName(m.name))>>

\* The calls on children that Reconcile makes for a stack, in order.
plan(m) == prometheusPlan(m) \o grafanaPlan(m)

At(i, phase) == [at |-> i, phase |-> phase]

\* The children of a stack that was converged with both components.
convergedChild(name, key) ==
  LET m == [MonitorStack EXCEPT
              !.name = name, !.finalizer = TRUE,
              !.spec = MonitorStackSpec(TRUE, "10Gi", TRUE, <<Datasource>>)]
      child == desiredChild(m, key)
  IN IF key.kind = "Deployment"
     THEN [child EXCEPT !.replicas = 1, !.readyReplicas = 1]
     ELSE child

\* The store in which the stacks named in `converged` have their children.
storeOf(converged) ==
  [k \in AllChildKeys |->
     IF \E n \in converged : k \in childKeys(n)
     THEN convergedChild(CHOOSE n \in converged : k \in childKeys(n), k)
     ELSE NoObj]

\* The stack as stored: converged before (phase Ready) or new (phase Pending).
storedStack(pe, ge, converged) ==
  [present |-> TRUE, deleting |-> FALSE, finalizer |-> TRUE,
   spec |-> MonitorStackSpec(pe, "10Gi", ge, <<Datasource>>),
   status |-> IF converged
              THEN [MonitorStackStatus EXCEPT
                      !.phase = "Ready",
                      !.message = "All enabled components are ready"]
              ELSE [MonitorStackStatus EXCEPT
                      !.phase = "Pending",
                      !.message = "Initializing MonitorStack"]]

InitTwoStacks ==
  /\ stack \in [TwoStacks -> {storedStack(pe, ge, c) :
                                pe \in BOOLEAN, ge \in BOOLEAN, c \in BOOLEAN}]
  /\ store = storeOf({n \in TwoStacks : stack[n].status.phase = "Ready"})
  /\ pc = [n \in TwoStacks |-> At(0, "idle")]
  /\ ms = [n \in TwoStacks |-> [MonitorStack EXCEPT !.name = n]]
  /\ fetched = [n \in TwoStacks |-> [MonitorStack EXCEPT !.name = n]]
  /\ calls = [n \in TwoStacks |-> <<>>]
  /\ result = [n \in TwoStacks |-> Result(0, "")]
  /\ stale = [n \in TwoStacks |-> FALSE]
  /\ msStale = FALSE
  /\ events = 0
  /\ second = FALSE
  /\ disturbed = FALSE

\* The invocation of stack n makes a call; the other stack's may be in flight.
call(n, verb, key, o) ==
  /\ calls' = [calls EXCEPT ![n] = Append(@, [verb |-> verb, key |-> key,
                                               outcome |-> o])]
  /\ disturbed' = (disturbed \/
                   \E other \in TwoStacks \ {n} :
                     pc[other].phase \notin {"idle", "done"})
  /\ UNCHANGED <<msStale, events, second>>

\* The position after step i of the plan.
advance(m, i) ==
  IF i < Len(plan(m)) THEN At(i + 1, "Get") ELSE At(0, "updateOverallStatus")

\* Reconcile's error path for stack n.
failStack(n, component, e) ==
  /\ pc' = [pc EXCEPT ![n] = At(0, "updateStatus")]
  /\ ms' = [ms EXCEPT ![n].status.phase = "Failed",
                      ![n].status.message = component \o " reconciliation failed: " \o e]
  /\ result' = [result EXCEPT ![n] = Result(RequeueFailure, e)]

\* Reconcile step 1 for stack n: fetch the stack.
fetchStack(n) ==
  /\ pc[n].phase = "idle"
  /\ call(n, "Get", stackKey(n), "ok")
  /\ LET m == [name |-> n, deleting |-> stack[n].deleting,
               finalizer |-> stack[n].finalizer, spec |-> stack[n].spec,
               status |-> stack[n].status]
     IN /\ ms' = [ms EXCEPT ![n] = m]
        /\ fetched' = [fetched EXCEPT ![n] = m]
        /\ pc' = [pc EXCEPT ![n] = At(1, "Get")]
  /\ UNCHANGED <<stack, store, result, stale>>

\* The Get of the child of the current step.
getChild(n) ==
  /\ pc[n].phase = "Get"
  /\ LET i == pc[n].at
         step == plan(ms[n])[i]
         found == store[step.key].present
     IN /\ call(n, "Get", step.key, IF found THEN "ok" ELSE "notfound")
        /\ CASE step.op = "apply" ->
                  /\ pc' = [pc EXCEPT ![n] = At(i, IF found THEN "Update" ELSE "Create")]
                  /\ UNCHANGED <<ms, result>>
             [] step.op = "applyOnce" ->
                  /\ pc' = [pc EXCEPT ![n] = IF found THEN advance(ms[n], i)
                                             ELSE At(i, "Create")]
                  /\ UNCHANGED <<ms, result>>
             [] step.op = "cleanup" ->
                  /\ pc' = [pc EXCEPT ![n] = IF found THEN At(i, "Delete")
                                             ELSE advance(ms[n], i)]
                  /\ UNCHANGED <<ms, result>>
             [] step.op = "readBack" /\ found ->
                  /\ pc' = [pc EXCEPT ![n] = advance(ms[n], i)]
                  /\ ms' = IF step.component = "Prometheus"
                           THEN [ms EXCEPT ![n].status.prometheusStatus =
                                   readBack(@, store[step.key],
                                            getPrometheusServiceName(n),
                                            ms[n].spec.prometheus.service.port)]
                           ELSE [ms EXCEPT ![n].status.grafanaStatus =
                                   readBack(@, store[step.key],
                                            getGrafanaServiceName(n),
                                            ms[n].spec.grafana.service.port)]
                  /\ UNCHANGED result
             [] OTHER -> failStack(n, step.component, "not found")
  /\ stale' = [stale EXCEPT ![n] = FALSE]
  /\ UNCHANGED <<stack, store, fetched>>

\* The Create, Update or Delete that follows the Get.  A write moves the
\* child's resource version under any other invocation that fetched it.
writeChild(n) ==
  /\ pc[n].phase \in {"Create", "Update", "Delete"}
  /\ LET i == pc[n].at
         step == plan(ms[n])[i]
         verb == pc[n].phase
         existing == store[step.key]
         o == CASE verb = "Create" -> IF existing.present THEN "error" ELSE "ok"
                [] verb = "Update" -> IF ~existing.present THEN "notfound"
                                      ELSE IF stale[n] THEN "error" ELSE "ok"
                [] OTHER -> IF existing.present THEN "ok" ELSE "notfound"
     IN /\ call(n, verb, step.key, o)
        /\ store' = IF o # "ok" THEN store
                    ELSE [store EXCEPT ![step.key] =
                            CASE verb = "Create" -> desiredChild(ms[n], step.key)
                              [] verb = "Update" ->
                                   mergeChild(existing,
                                              desiredChild(ms[n], step.key),
                                              step.key.kind)
                              [] OTHER -> NoObj]
        /\ stale' = [x \in TwoStacks |->
                       IF x = n THEN FALSE
                       ELSE stale[x] \/
                            (/\ o = "ok"
                             /\ pc[x].phase \in {"Create", "Update", "Delete"}
                             /\ plan(ms[x])[pc[x].at].key = step.key)]
        /\ IF o = "ok" \/ verb = "Delete"
           THEN /\ pc' = [pc EXCEPT ![n] = advance(ms[n], i)]
                /\ UNCHANGED <<ms, result>>
           ELSE failStack(n, step.component, errText(o))
  /\ UNCHANGED <<stack, fetched>>

\* The status write that ends the invocation: the aggregate, or the failure.
persistStatus(n) ==
  /\ pc[n].phase \in {"updateOverallStatus", "updateStatus"}
  /\ call(n, "StatusUpdate", stackKey(n), "ok")
  /\ LET status == IF pc[n].phase = "updateStatus" THEN ms[n].status
                   ELSE overallStatus(ms[n])
     IN /\ ms' = [ms EXCEPT ![n].status = status]
        /\ stack' = [stack EXCEPT ![n].status = status]
        /\ result' = [result EXCEPT ![n] =
                        IF pc[n].phase = "updateStatus" THEN @
                        ELSE Result(RequeueSuccess, "")]
  /\ pc' = [pc EXCEPT ![n] = At(0, "done")]
  /\ UNCHANGED <<store, fetched, stale>>

NextTwoStacks ==
  \E n \in TwoStacks :
    \/ fetchStack(n)
    \/ getChild(n)
    \/ writeChild(n)
    \/ persistStatus(n)

SpecTwoStacks == InitTwoStacks /\ [][NextTwoStacks]_vars

-----------------------------------------------------------------------------
(* Vocabulary of the claims.                                               *)

\* The invocation issued `verb` on `key` and got an outcome in `outcomes`.
Has(verb, key, outcomes) ==
  \E i \in DOMAIN calls :
    calls[i].verb = verb /\ calls[i].key = key /\ calls[i].outcome \in outcomes

\* The invocation fetched the MonitorStack (its first call succeeded).
Fetched == Len(calls) >= 1 /\ calls[1].outcome = "ok"

\* No call of the invocation failed with anything but not-found.
NoApiErrors == \A i \in DOMAIN calls : calls[i].outcome \in {"ok", "notfound"}

\* The invocation ran to its end and returned the success interval.
Completed == pc = "done" /\ result = Result(RequeueSuccess, "")

PrometheusKeys == {PromCM, PromPVC, PromDep, PromSvc}

\* A call made while converging the children of an enabled component failed.
ConvergenceFailed ==
  /\ Fetched /\ ~fetched.deleting
  /\ \E i \in DOMAIN calls :
       /\ calls[i].outcome = "error"
       /\ calls[i].key \in ChildKeys
       /\ IF calls[i].key \in PrometheusKeys
          THEN fetched.spec.prometheus.enabled
          ELSE fetched.spec.grafana.enabled

-----------------------------------------------------------------------------
(* C1.  Idempotency: when Reconcile runs twice in a row on the same stack  *)
(* with an unchanged spec and nothing external in between, the second run  *)
(* issues no Update on any child resource.                                 *)
C1_SecondRunIssuesNoUpdate ==
  (second /\ ~disturbed) =>
    \A i \in DOMAIN calls :
      ~(calls[i].verb = "Update" /\ calls[i].key \in ChildKeys)

(* C2.  Deletion protocol: whenever an invocation on a stack marked for    *)
(* deletion removes the finalizer, each child that cleanup targets has     *)
(* been deleted or found absent in that invocation.                        *)
C2_FinalizerRemovedOnlyAfterCleanup ==
  (Fetched /\ fetched.deleting /\ Has("Update", StackKey, {"ok"})) =>
    \A k \in {PromDep, PromSvc, PromCM, GrafDep, GrafSvc} :
      Has("Get", k, {"notfound"}) \/ Has("Delete", k, {"ok", "notfound"})

(* C3.  During the deletion protocol, when the fetch or the delete of a    *)
(* child fails with an error other than not-found, the invocation returns  *)
(* a retry request (an error or a requeue).                                *)
C3_CleanupFailureIsRetried ==
  (/\ pc = "done" /\ Fetched /\ fetched.deleting
   /\ \E i \in DOMAIN calls :
        calls[i].key \in ChildKeys /\ calls[i].outcome = "error")
  => (result.err # "" \/ result.requeueAfter > 0)

(* C4.  Finalizer guard: an invocation that fetches a stack not marked for *)
(* deletion and without the finalizer issues, after the fetch, one Update  *)
(* of the stack adding the finalizer and nothing else: no child call and   *)
(* no status write; it then stops, and unless someone else wrote since,    *)
(* the stored object carries the finalizer with status and spec as         *)
(* fetched; no child exists.  And the engine issues a Create only in an    *)
(* invocation that fetched the finalizer, while the stored stack carries   *)
(* it.                                                                     *)
C4_FinalizerGuard ==
  /\ (Fetched /\ ~fetched.deleting /\ ~fetched.finalizer) =>
       /\ Len(calls) <= 2
       /\ Len(calls) = 2 <=> pc = "done"
       /\ Len(calls) = 2 =>
            /\ calls[2].verb = "Update" /\ calls[2].key = StackKey
            /\ result = Result(0, IF calls[2].outcome = "ok" THEN ""
                                  ELSE errText(calls[2].outcome))
            /\ (calls[2].outcome = "ok" /\ ~disturbed) =>
                 /\ stack.present /\ stack.finalizer
                 /\ stack.status = fetched.status
                 /\ stack.spec = fetched.spec
       /\ \A k \in ChildKeys : ~store[k].present
  /\ (\E i \in DOMAIN calls : calls[i].verb = "Create") =>
       /\ fetched.finalizer
       /\ stack.present /\ stack.finalizer

C4_Witness ==
  /\ pc = "done" /\ Fetched /\ ~fetched.deleting /\ ~fetched.finalizer
  /\ calls[2].outcome = "ok"
  /\ stack.present /\ stack.finalizer /\ stack.status.phase = ""
  /\ stack.spec.prometheus.enabled

(* C5.  When the stack is not found on fetch, Reconcile is a no-op: the    *)
(* fetch is its only call (no write of any kind), and it returns success   *)
(* with no requeue.                                                        *)
C5_NotFoundIsNoop ==
  (Len(calls) >= 1 /\ calls[1].outcome = "notfound") =>
    /\ pc = "done"
    /\ Len(calls) = 1
    /\ result = Result(0, "")

C5_Witness ==
  /\ pc = "done" /\ ~stack.present
  /\ calls = <<[verb |-> "Get", key |-> StackKey, outcome |-> "notfound"]>>

(* C6.  When the fetched stack is marked for deletion, the invocation      *)
(* never creates or updates a child and never writes status, whatever the  *)
(* enabled flags, the phase or the finalizer of the stack.                 *)
C6_DeletionRunsOnlyTheProtocol ==
  (Fetched /\ fetched.deleting) =>
    \A i \in DOMAIN calls :
      /\ calls[i].verb \notin {"Create", "StatusUpdate"}
      /\ calls[i].verb = "Update" => calls[i].key = StackKey

C6_Witness ==
  /\ pc = "done" /\ Fetched /\ fetched.deleting
  /\ fetched.spec.prometheus.enabled /\ fetched.spec.grafana.enabled
  /\ Has("Delete", PromDep, {"ok"}) /\ Has("Delete", GrafDep, {"ok"})
  /\ Has("Update", StackKey, {"ok"})

(* C7.  Status aggregation: the step of updateOverallStatus submits phase  *)
(* Ready exactly when every enabled component's ready flag is true, and    *)
(* Pending otherwise; the ready flag of a disabled component has no part   *)
(* in it; the component statuses go out unchanged, and a successful write  *)
(* stores that status.                                                     *)
C7_Aggregation ==
  [][(pc = "updateOverallStatus" /\ pc' = "done") =>
       /\ ms'.status.phase =
            IF /\ ms.spec.prometheus.enabled => ms.status.prometheusStatus.ready
               /\ ms.spec.grafana.enabled => ms.status.grafanaStatus.ready
            THEN "Ready" ELSE "Pending"
       /\ ms'.status.prometheusStatus = ms.status.prometheusStatus
       /\ ms'.status.grafanaStatus = ms.status.grafanaStatus
       /\ calls'[Len(calls')].outcome = "ok" => stack'.status = ms'.status]_vars

\* Ready although the disabled collector's flag is false.
C7_Witness ==
  /\ Completed /\ stack.present
  /\ ~fetched.spec.prometheus.enabled /\ fetched.spec.grafana.enabled
  /\ ~stack.status.prometheusStatus.ready /\ stack.status.grafanaStatus.ready
  /\ stack.status.phase = "Ready"

(* C8.  Disable-cleans-up: after an invocation on a stack with the         *)
(* dashboard disabled runs to its end with no API error and nothing        *)
(* external during it, the dashboard workload and endpoint do not exist,   *)
(* while no child of the enabled collector was deleted and each of them    *)
(* (config artifact, storage claim when a size is set, workload, endpoint) *)
(* exists.                                                                 *)
C8_DisableCleansUp ==
  (/\ pc = "done" /\ Fetched /\ ~fetched.deleting /\ fetched.finalizer
   /\ ~fetched.spec.grafana.enabled
   /\ NoApiErrors /\ ~disturbed)
  => /\ ~store[GrafDep].present
     /\ ~store[GrafSvc].present
     /\ fetched.spec.prometheus.enabled =>
          /\ \A i \in DOMAIN calls :
               calls[i].verb = "Delete" => calls[i].key \notin PrometheusKeys
          /\ store[PromCM].present
          /\ store[PromDep].present
          /\ store[PromSvc].present
          /\ fetched.spec.prometheus.storage.size # "" => store[PromPVC].present

\* The dashboard had been converged: this invocation deleted its workload and endpoint.
C8_Witness ==
  /\ pc = "done" /\ NoApiErrors /\ ~disturbed
  /\ ~fetched.spec.grafana.enabled /\ fetched.spec.prometheus.enabled
  /\ Has("Delete", GrafDep, {"ok"}) /\ Has("Delete", GrafSvc, {"ok"})
  /\ Has("Update", PromDep, {"ok"})
  /\ store[PromPVC].present /\ store[PromDep].present

(* C9.  After a component that was enabled and ready is disabled and       *)
(* Reconcile completes, the stored ComponentStatus of that component is    *)
(* not ready.                                                              *)
C9_DisabledComponentNotReady ==
  (Completed /\ ~disturbed /\ stack.present) =>
    /\ ~fetched.spec.prometheus.enabled => ~stack.status.prometheusStatus.ready
    /\ ~fetched.spec.grafana.enabled => ~stack.status.grafanaStatus.ready

-----------------------------------------------------------------------------
GrafanaKeys == {GrafCM, GrafDep, GrafSvc}

\* The invocation converges the component that `key` belongs to.
Converging(key) ==
  /\ Fetched /\ ~fetched.deleting /\ fetched.finalizer
  /\ IF key \in PrometheusKeys THEN fetched.spec.prometheus.enabled
     ELSE key \in GrafanaKeys /\ fetched.spec.grafana.enabled

\* Call i is the read-back of a workload: a Get that follows the endpoint's step.
IsReadBack(i) ==
  /\ i > 1 /\ calls[i].verb = "Get"
  /\ \/ calls[i].key = PromDep /\ calls[i - 1].key = PromSvc
     \/ calls[i].key = GrafDep /\ calls[i - 1].key = GrafSvc

\* Call i is a convergence step that failed: an error on any call, a Create or
\* Update that did not succeed, or a read-back that did not find the workload.
StepFailed(i) ==
  /\ i \in DOMAIN calls
  /\ Converging(calls[i].key)
  /\ \/ calls[i].outcome = "error"
     \/ calls[i].verb \in {"Create", "Update"} /\ calls[i].outcome # "ok"
     \/ IsReadBack(i) /\ calls[i].outcome # "ok"

(* C11.  Abort on failure: once a convergence step of an invocation has    *)
(* failed, the invocation issues no further call on any child; the only    *)
(* call that may follow is the status write of the failure, after which    *)
(* the invocation is over with phase Failed: the aggregator did not run.   *)
C11_AbortOnFailure ==
  \A i \in DOMAIN calls :
    StepFailed(i) =>
      /\ Len(calls) <= i + 1
      /\ pc = (IF Len(calls) = i THEN "updateStatus" ELSE "done")
      /\ ms.status.phase = "Failed"
      /\ Len(calls) = i + 1 =>
           calls[i + 1].verb = "StatusUpdate" /\ calls[i + 1].key = StackKey

\* The collector's workload could not be created; the enabled dashboard was not touched.
C11_Witness ==
  /\ pc = "done"
  /\ fetched.spec.prometheus.enabled /\ fetched.spec.grafana.enabled
  /\ Has("Create", PromDep, {"error"})
  /\ \A i \in DOMAIN calls : calls[i].key \notin GrafanaKeys
  /\ ~store[GrafDep].present
  /\ stack.status.phase = "Failed"

(* C12.  A not-found answer to the fetch of a child is never propagated:   *)
(* an invocation in which every call succeeded, except fetches of children *)
(* that answered not-found, returns no error and does not set phase        *)
(* Failed.                                                                 *)
C12_NotFoundNeverPropagated ==
  (/\ pc = "done"
   /\ \A i \in DOMAIN calls :
        \/ calls[i].outcome = "ok"
        \/ /\ calls[i].verb = "Get" /\ calls[i].key \in ChildKeys
           /\ calls[i].outcome = "notfound")
  => /\ result.err = ""
     /\ ms.status.phase = "Failed" => fetched.status.phase = "Failed"

(* C13.  A stack whose spec fails validation is surfaced as phase Failed   *)
(* and no child is converged for it: an invocation that ran to its end on  *)
(* such a stack (not being deleted, finalizer in place) leaves phase       *)
(* Failed and has created or updated no child.  In particular a stack with *)
(* both components disabled does not get phase Ready.                      *)
C13_InvalidSpecIsFailed ==
  (/\ pc = "done" /\ Fetched /\ ~fetched.deleting /\ fetched.finalizer
   /\ NoApiErrors /\ ~disturbed
   /\ validateMonitorStack(fetched) # "")
  => /\ ms.status.phase = "Failed"
     /\ stack.status.phase # "Ready"
     /\ \A i \in DOMAIN calls : calls[i].verb \notin {"Create", "Update"}

-----------------------------------------------------------------------------
(* Claims about validation and defaulting, stated on SpecNormalizer.       *)

\* What the specification lists as invalid for either component.
InvalidComponent(c) ==
  \/ c.service.port < 1 \/ c.service.port > 65535
  \/ /\ c.service.type = "NodePort"
     /\ c.service.nodePort # 0
     /\ c.service.nodePort < 30000 \/ c.service.nodePort > 32767
  \/ c.image = ""
  \/ c.tag = ""

InvalidSpec(spec) ==
  \/ ~spec.prometheus.enabled /\ ~spec.grafana.enabled
  \/ spec.prometheus.enabled /\ InvalidComponent(spec.prometheus)
  \/ /\ spec.grafana.enabled
     /\ \/ InvalidComponent(spec.grafana)
        \/ spec.grafana.adminPassword = ""
        \/ \E i \in DOMAIN spec.grafana.datasources :
             LET ds == spec.grafana.datasources[i]
             IN ds.name = "" \/ ds.type = "" \/ ds.url = ""

(* C14.  validateMonitorStack returns an error exactly when both           *)
(* components are disabled, or an enabled component has a port outside     *)
(* [1,65535], or type NodePort with a node port that is set (not zero) and *)
(* outside [30000,32767], or an empty image or tag, or the enabled         *)
(* dashboard has an empty admin password or a datasource with an empty     *)
(* name, type or url.                                                      *)
C14_ValidateExactly ==
  pc = "validateMonitorStack" => (result.err # "" <=> InvalidSpec(ms.spec))

\* A field that was written keeps its value; `unset` is the field's zero value.
Kept(before, after, unset) == before # unset => after = before

DefaultedOnlyUnset(before, after) ==
  /\ after.enabled = before.enabled
  /\ Kept(before.image, after.image, "")
  /\ Kept(before.tag, after.tag, "")
  /\ Kept(before.service.port, after.service.port, 0)
  /\ Kept(before.service.type, after.service.type, "")
  /\ after.service.nodePort = before.service.nodePort
  /\ Kept(before.resources.requests.cpu, after.resources.requests.cpu, "")
  /\ Kept(before.resources.requests.memory, after.resources.requests.memory, "")
  /\ after.resources.limits = before.resources.limits

(* C15.  setDefaultValues changes only fields that are unset (empty string *)
(* or zero) and never a field that was written; fields it has no default   *)
(* for stay as they are; and applying it again changes nothing.            *)
C15_DefaultsOnlyUnsetAndIdempotent ==
  /\ fetched.name = ms.name /\ fetched.status = ms.status
  /\ ms.spec.labels = fetched.spec.labels
  /\ DefaultedOnlyUnset(fetched.spec.prometheus, ms.spec.prometheus)
  /\ Kept(fetched.spec.prometheus.retention, ms.spec.prometheus.retention, "")
  /\ ms.spec.prometheus.storage = fetched.spec.prometheus.storage
  /\ ms.spec.prometheus.config = fetched.spec.prometheus.config
  /\ DefaultedOnlyUnset(fetched.spec.grafana, ms.spec.grafana)
  /\ Kept(fetched.spec.grafana.adminPassword, ms.spec.grafana.adminPassword, "")
  /\ ms.spec.grafana.datasources = fetched.spec.grafana.datasources
  /\ events >= 1 => setDefaultValues(ms) = ms

\* Applied twice to a dashboard with a written image and password and unset tag and port.
C15_Witness ==
  /\ events = 2
  /\ fetched.spec.grafana.enabled
  /\ fetched.spec.grafana.image = "quay.io/grafana" /\ ms.spec.grafana.image = "quay.io/grafana"
  /\ fetched.spec.grafana.adminPassword = "s3cret" /\ ms.spec.grafana.adminPassword = "s3cret"
  /\ fetched.spec.grafana.tag = "" /\ ms.spec.grafana.tag = "latest"
  /\ fetched.spec.grafana.service.port = 0 /\ ms.spec.grafana.service.port = 3000

\* The spec in which only prometheus.enabled = true is written.
OnlyPrometheusEnabled ==
  [prometheus |-> [UnsetPrometheus EXCEPT !.enabled = TRUE],
   grafana |-> UnsetGrafana, labels |-> <<>>]

(* C16.  Defaulting a spec in which only prometheus.enabled = true is set  *)
(* yields collector service port 9090, service type ClusterIP, retention   *)
(* "15d", cpu request "100m" and memory request "256Mi".                   *)
C16_DefaultsOfMinimalPrometheus ==
  (fetched.spec = OnlyPrometheusEnabled /\ events >= 1) =>
    /\ ms.spec.prometheus.service.port = 9090
    /\ ms.spec.prometheus.service.type = "ClusterIP"
    /\ ms.spec.prometheus.retention = "15d"
    /\ ms.spec.prometheus.resources.requests.cpu = "100m"
    /\ ms.spec.prometheus.resources.requests.memory = "256Mi"

C16_Witness ==
  /\ fetched.spec = OnlyPrometheusEnabled /\ events = 1
  /\ pc = "setDefaultValues"
  /\ ms.spec.prometheus.service.port = 9090
  /\ ms.spec.prometheus.retention = "15d"
  /\ ms.spec.grafana = UnsetGrafana

-----------------------------------------------------------------------------
(* C17.  Naming, stated on SpecNaming: the children of a stack are named   *)
(* {stack}-prometheus (workload and endpoint), {stack}-prometheus-config,  *)
(* {stack}-prometheus-data, {stack}-grafana (workload and endpoint) and    *)
(* {stack}-grafana-datasources; the same name always gives the same keys;  *)
(* and two stacks with distinct names have no child of the same kind and   *)
(* name, also when one name is a prefix of the other or ends like a        *)
(* child's name.                                                           *)
C17_NamesAreDistinctPerStack ==
  Len(calls) = 2 =>
    /\ \A k \in calls[1] :
         k.name \in {ms.name \o "-prometheus", ms.name \o "-prometheus-config",
                     ms.name \o "-prometheus-data", ms.name \o "-grafana",
                     ms.name \o "-grafana-datasources"}
    /\ Cardinality(calls[1]) = 7
    /\ ms.name = "acme" =>
         {k.name : k \in calls[1]} =
           {"acme-prometheus", "acme-prometheus-config", "acme-prometheus-data",
            "acme-grafana", "acme-grafana-datasources"}
    /\ ms.name = fetched.name => calls[1] = calls[2]
    /\ ms.name # fetched.name => calls[1] \cap calls[2] = {}

\* One stack's name is the other's workload name.
C17_Witness ==
  /\ Len(calls) = 2
  /\ ms.name = "acme" /\ fetched.name = "acme-prometheus"
  /\ Key("Deployment", "acme-prometheus") \in calls[1]
  /\ Key("Deployment", "acme-prometheus-prometheus") \in calls[2]
  /\ Key("ConfigMap", "acme-prometheus-config") \in calls[1]
  /\ Key("ConfigMap", "acme-prometheus-prometheus-config") \in calls[2]

-----------------------------------------------------------------------------
\* The call the step has just issued.
LastCall == calls'[Len(calls')]

(* C18.  The storage claim is create-only, stated on SpecStorage: whatever *)
(* the user changes (size, class, enabled flags), the engine's calls on    *)
(* the claim are a Get and, right after a Get that found it absent, a      *)
(* Create; it never issues an Update on it, and a claim that exists is     *)
(* never changed.                                                          *)
C18_ClaimIsCreateOnly ==
  [][/\ (Len(calls') = Len(calls) + 1 /\ LastCall.key = PromPVC) =>
          /\ LastCall.verb \in {"Get", "Create"}
          /\ LastCall.verb = "Create" =>
               /\ Len(calls) >= 1
               /\ calls[Len(calls)] =
                    [verb |-> "Get", key |-> PromPVC, outcome |-> "notfound"]
               /\ ~store[PromPVC].present
     /\ (store[PromPVC].present /\ store'[PromPVC].present) =>
          store'[PromPVC] = store[PromPVC]]_vars

\* The claim was created for 10Gi; the spec now asks for 20Gi and an invocation
\* has converged the collector with the claim as it was.
C18_Witness ==
  /\ Completed
  /\ fetched.spec.prometheus.storage.size = "20Gi"
  /\ Has("Get", PromPVC, {"ok"})
  /\ Has("Update", PromDep, {"ok"})
  /\ store[PromPVC].present /\ store[PromPVC].spec.storage = "10Gi"

(* C19.  Every child the engine creates carries the ownership link to its  *)
(* stack from the moment of creation: a child comes into existence only by *)
(* a successful Create of the invocation, and the object then stored is    *)
(* owned by the stack the invocation fetched.                              *)
C19_CreatedWithOwner ==
  [][\A k \in ChildKeys :
       (~store[k].present /\ store'[k].present) =>
         /\ Len(calls') = Len(calls) + 1
         /\ LastCall = [verb |-> "Create", key |-> k, outcome |-> "ok"]
         /\ store'[k].owner = fetched.name
         /\ fetched.name = StackName]_vars

\* All seven children exist, each owned by the stack.
C19_Witness ==
  /\ Completed
  /\ \A k \in ChildKeys : store[k].present /\ store[k].owner = StackName
  /\ Has("Create", PromPVC, {"ok"}) /\ Has("Create", GrafSvc, {"ok"})

-----------------------------------------------------------------------------
\* Position of a child in the convergence order of its component.
Rank(key) ==
  CASE key \in {PromCM, GrafCM} -> 1
    [] key = PromPVC -> 2
    [] key \in {PromDep, GrafDep} -> 3
    [] key \in {PromSvc, GrafSvc} -> 4
    [] OTHER -> 0

SameComponent(k1, k2) ==
  \/ k1 \in PrometheusKeys /\ k2 \in PrometheusKeys
  \/ k1 \in GrafanaKeys /\ k2 \in GrafanaKeys

\* The invocation has created or updated `key` successfully before call j.
WrittenBefore(key, j) ==
  \E i \in 1..(j - 1) :
    /\ calls[i].key = key /\ calls[i].verb \in {"Create", "Update"}
    /\ calls[i].outcome = "ok"

(* C20.  Ordering: within one invocation the children of a component are   *)
(* converged in the order config artifact, storage claim, workload,        *)
(* endpoint, each step beginning only after the one before it succeeded:   *)
(* when a child is created or updated, every earlier call of the           *)
(* invocation on the component was on that child or one before it in the   *)
(* order and did not fail; the workload is written only after the config   *)
(* artifact was written and, when a size is set, the claim was found or    *)
(* created; the endpoint only after the workload was written.              *)
C20_ConvergenceOrder ==
  \A j \in DOMAIN calls :
    (Converging(calls[j].key) /\ calls[j].verb \in {"Create", "Update"}) =>
      /\ \A i \in 1..(j - 1) :
           SameComponent(calls[i].key, calls[j].key) =>
             /\ Rank(calls[i].key) <= Rank(calls[j].key)
             /\ calls[i].outcome # "error"
             /\ calls[i].verb \in {"Create", "Update"} => calls[i].outcome = "ok"
      /\ calls[j].key = PromDep =>
           /\ WrittenBefore(PromCM, j)
           /\ fetched.spec.prometheus.storage.size # "" =>
                \E i \in 1..(j - 1) :
                  /\ calls[i].key = PromPVC /\ calls[i].outcome = "ok"
                  /\ calls[i].verb \in {"Get", "Create"}
      /\ calls[j].key = PromSvc => WrittenBefore(PromDep, j)
      /\ calls[j].key = GrafDep =>
           (Len(fetched.spec.grafana.datasources) > 0 => WrittenBefore(GrafCM, j))
      /\ calls[j].key = GrafSvc => WrittenBefore(GrafDep, j)

\* The four children of the collector were created one after the other.
C20_Witness ==
  /\ Completed
  /\ \E a, b, c, d \in DOMAIN calls :
       /\ a < b /\ b < c /\ c < d
       /\ calls[a] = [verb |-> "Create", key |-> PromCM, outcome |-> "ok"]
       /\ calls[b] = [verb |-> "Create", key |-> PromPVC, outcome |-> "ok"]
       /\ calls[c] = [verb |-> "Create", key |-> PromDep, outcome |-> "ok"]
       /\ calls[d] = [verb |-> "Create", key |-> PromSvc, outcome |-> "ok"]

-----------------------------------------------------------------------------
\* The step is a successful Update of a child by the invocation.
UpdatedChild ==
  /\ Len(calls') = Len(calls) + 1
  /\ LastCall.verb = "Update" /\ LastCall.outcome = "ok"
  /\ LastCall.key \in ChildKeys

(* C21.  Field-scoped merge: a successful update of an existing child keeps *)
(* the child's annotations, its status (replicas and ready replicas) and    *)
(* its ownership link as they were fetched, a config artifact keeps its     *)
(* labels too, and no other child is written; only spec and labels (data    *)
(* for a config artifact) may differ afterwards.                            *)
C21_FieldScopedMerge ==
  [][UpdatedChild =>
       LET k == LastCall.key IN
         /\ store'[k].present
         /\ store'[k].annotations = store[k].annotations
         /\ store'[k].owner = store[k].owner
         /\ store'[k].replicas = store[k].replicas
         /\ store'[k].readyReplicas = store[k].readyReplicas
         /\ (k.kind = "ConfigMap" => store'[k].labels = store[k].labels)
         /\ \A other \in ChildKeys \ {k} : store'[other] = store[other]]_vars

\* An annotated, orphaned workload that reports a ready replica has just
\* been updated, and an annotated config artifact before it.
C21_Witness ==
  /\ calls # <<>>
  /\ calls[Len(calls)] = [verb |-> "Update", key |-> PromDep, outcome |-> "ok"]
  /\ pc = "createPrometheusService_Get"
  /\ store[PromDep].annotations = {"example.com/note"}
  /\ store[PromDep].readyReplicas = 1
  /\ store[PromDep].labels = getLabels(ms, "prometheus")
  /\ Has("Update", PromCM, {"ok"})

(* C22.  In every persisted status a component's endpoint is non-empty     *)
(* only if its ready flag is true, also after the workload's ready count   *)
(* rose and fell back to zero.                                             *)
C22_EndpointOnlyIfReady ==
  stack.present =>
    /\ (stack.status.prometheusStatus.endpoint # "" =>
          stack.status.prometheusStatus.ready)
    /\ (stack.status.grafanaStatus.endpoint # "" =>
          stack.status.grafanaStatus.ready)

-----------------------------------------------------------------------------
\* The invocation is about to update a child that was written by someone
\* else after the invocation fetched it.
ConflictingUpdate ==
  /\ stale
  /\ \E k \in ChildKeys : pc = updateSite(k) /\ store[k].present
  /\ pc' # pc

\* The step ends an invocation that fetched a stack in phase Failed and
\* whose every call succeeded.
RetrySucceeded ==
  /\ pc # "done" /\ pc' = "done"
  /\ fetched.status.phase = "Failed"
  /\ \A i \in DOMAIN calls' : calls'[i].outcome = "ok"

(* C23.  Optimistic concurrency: an update of a child that someone else    *)
(* wrote between the engine's fetch and its update fails and leaves the    *)
(* store, the external edit included, as it was; the invocation returns    *)
(* the error with the 1-minute retry.  The failure is not permanent: a     *)
(* later invocation that fetches the stack in phase Failed and whose calls *)
(* all succeed persists a phase other than Failed and returns the success  *)
(* interval.                                                               *)
C23_ConflictIsTransient ==
  [][/\ ConflictingUpdate =>
          /\ LastCall.verb = "Update" /\ LastCall.outcome = "error"
          /\ store' = store
          /\ pc' = "updateStatus"
          /\ result'.err # "" /\ result'.requeueAfter = RequeueFailure
     /\ RetrySucceeded =>
          /\ stack'.status.phase \in {"Ready", "Pending"}
          /\ result' = Result(RequeueSuccess, "")]_vars

\* The only event so far was an external annotation of the collector's
\* workload; an invocation failed on it, and the next one, which fetched
\* phase Failed, has completed with the annotation still in the store.
C23_Witness ==
  /\ Completed
  /\ events = 1
  /\ fetched.status.phase = "Failed"
  /\ stack.status.phase = "Pending"
  /\ store[PromDep].annotations = {"example.com/note"}
  /\ Has("Update", PromDep, {"ok"})

-----------------------------------------------------------------------------
\* The last call of the invocation is the successful write of the aggregated
\* status: a status write that follows the calls on the children.
AggregatePersisted ==
  /\ Len(calls) >= 3
  /\ calls[Len(calls)] = [verb |-> "StatusUpdate", key |-> StackKey, outcome |-> "ok"]
  /\ calls[Len(calls) - 1].key \in ChildKeys

(* C24.  An invocation returns the 5-minute interval exactly when it       *)
(* fetched a stack that is not being deleted and carries the finalizer,    *)
(* no convergence step of an enabled component failed, and its last call   *)
(* persisted the aggregated status; the interval comes without an error,   *)
(* and no invocation holds it before its end.                              *)
C24_SuccessIntervalExactly ==
  /\ pc # "done" => result.requeueAfter # RequeueSuccess
  /\ pc = "done" =>
       /\ (result.requeueAfter = RequeueSuccess <=>
             /\ Fetched /\ ~fetched.deleting /\ fetched.finalizer
             /\ ~ \E i \in DOMAIN calls : StepFailed(i)
             /\ AggregatePersisted)
       /\ (result.requeueAfter = RequeueSuccess => result.err = "")

\* An invocation that converged the collector and cleaned up the dashboard,
\* one of whose cleanup calls failed, has returned the 5-minute interval.
C24_Witness ==
  /\ Completed
  /\ fetched.spec.prometheus.enabled /\ ~fetched.spec.grafana.enabled
  /\ Has("Create", PromDep, {"ok"})
  /\ Has("Get", GrafDep, {"error"})
  /\ AggregatePersisted

-----------------------------------------------------------------------------
\* The step is a call of the invocation.
EngineStep == Len(calls') = Len(calls) + 1

\* The step is a successful write of the stack by the invocation.
StackWritten ==
  /\ EngineStep
  /\ LastCall.key = StackKey
  /\ LastCall.verb \in {"Update", "StatusUpdate"}
  /\ LastCall.outcome = "ok"

(* C25.  The engine never changes the spec of a stack: no call of an       *)
(* invocation changes the stored spec; a successful write of the stack     *)
(* (finalizer add, finalizer removal, status write) leaves a stack whose   *)
(* spec is the spec fetched at the start of the invocation and which       *)
(* differs from the stack before the write in status and finalizer only;   *)
(* the spec the invocation holds in memory stays the fetched one.          *)
C25_SpecNeverWritten ==
  [][/\ EngineStep =>
          /\ stack'.present => stack'.spec = stack.spec
          /\ Len(calls') > 1 => ms'.spec = fetched'.spec
     /\ (StackWritten /\ stack'.present) =>
          /\ stack'.spec = fetched.spec
          /\ [stack' EXCEPT !.status = stack.status,
                            !.finalizer = stack.finalizer] = stack]_vars

\* The user edited the spec before the fetch of this invocation, which then
\* persisted the finalizer.
C25_Witness ==
  /\ pc = "done" /\ disturbed
  /\ Len(calls) = 2
  /\ calls[2] = [verb |-> "Update", key |-> StackKey, outcome |-> "ok"]
  /\ stack.present /\ stack.finalizer
  /\ stack.spec = fetched.spec

(* C26.  After a component is disabled, or the stack is marked for         *)
(* deletion, and the invocation runs to its end with no API error and      *)
(* nothing external during it, no child of that component is left in the   *)
(* store: workload, endpoint, config artifact (the dashboard's datasource  *)
(* config included) and storage claim.                                     *)
C26_EngineDeletesEveryChild ==
  (/\ pc = "done" /\ Fetched /\ fetched.finalizer
   /\ NoApiErrors /\ ~disturbed)
  => /\ (fetched.deleting \/ ~fetched.spec.prometheus.enabled) =>
          \A k \in PrometheusKeys : ~store[k].present
     /\ (fetched.deleting \/ ~fetched.spec.grafana.enabled) =>
          \A k \in GrafanaKeys : ~store[k].present

-----------------------------------------------------------------------------
-----------------------------------------------------------------------------
\* One step of a plan applied to a store, its Get and its write together.
applyStep(m, step, st) ==
  LET desired == desiredChild(m, step.key)
  IN CASE step.op = "apply" ->
            [st EXCEPT ![step.key] =
               IF @.present THEN mergeChild(@, desired, step.key.kind) ELSE desired]
       [] step.op = "applyOnce" ->
            [st EXCEPT ![step.key] = IF @.present THEN @ ELSE desired]
       [] step.op = "cleanup" -> [st EXCEPT ![step.key] = NoObj]
       [] OTHER -> st

\* The store after an invocation for m ran alone from step i on.
RECURSIVE runPlan(_, _, _)
runPlan(m, i, st) ==
  IF i > Len(plan(m)) THEN st
  ELSE runPlan(m, i + 1, applyStep(m, plan(m)[i], st))

\* The store after the invocation of `first` and then that of `then` ran,
\* one after the other, from the store the two stacks started with.
Sequential(first, then) ==
  runPlan(fetched[then], 1,
          runPlan(fetched[first], 1,
                  storeOf({n \in TwoStacks : fetched[n].status.phase = "Ready"})))

(* C28.  Cross-stack isolation: with the invocations of two stacks of      *)
(* distinct names interleaved call by call, every call of an invocation is *)
(* on its own stack or on a child named for it and never on the other      *)
(* stack or a child named for the other; and when both invocations are     *)
(* over, the store holds the children it would hold had the invocations    *)
(* run one after the other, in either order, and both returned success.    *)
C28_CrossStackIsolation ==
  /\ \A n \in TwoStacks : \A i \in DOMAIN calls[n] :
       /\ calls[n][i].key \in childKeys(n) \cup {stackKey(n)}
       /\ \A other \in TwoStacks \ {n} :
            calls[n][i].key \notin childKeys(other) \cup {stackKey(other)}
  /\ (\A n \in TwoStacks : pc[n].phase = "done") =>
       /\ store = Sequential("acme", "acme-prometheus")
       /\ store = Sequential("acme-prometheus", "acme")
       /\ \A n \in TwoStacks : result[n] = Result(RequeueSuccess, "")

\* Both invocations are over and overlapped: one deleted the children of a
\* disabled dashboard while the other created those of its collector.
C28_Witness ==
  /\ \A n \in TwoStacks : pc[n].phase = "done"
  /\ disturbed
  /\ \E i \in DOMAIN calls["acme"] :
       calls["acme"][i] = [verb |-> "Delete",
                           key |-> Key("Deployment", getGrafanaName("acme")),
                           outcome |-> "ok"]
  /\ \E i \in DOMAIN calls["acme-prometheus"] :
       calls["acme-prometheus"][i] =
         [verb |-> "Create",
          key |-> Key("Deployment", getPrometheusName("acme-prometheus")),
          outcome |-> "ok"]
  /\ store[Key("Deployment", getPrometheusName("acme"))].present

-----------------------------------------------------------------------------
\* The children handleDeletion looks up, in the order of its two cleanups.
CleanupOrder == <<PromDep, PromSvc, PromCM, GrafDep, GrafSvc>>

\* Where the invocation fetched a child.
GetAt(key) ==
  {i \in DOMAIN calls : calls[i].verb = "Get" /\ calls[i].key = key}

(* C29.  Deletion protocol: on a stack marked for deletion the invocation  *)
(* looks up the collector's children and then the dashboard's, each once   *)
(* and in order, whatever the enabled flags, and deletes a child only      *)
(* right after finding it; the write that removes the finalizer comes      *)
(* after all five lookups and is the last call of the invocation.  When    *)
(* that write succeeds the invocation returns no error; when it fails the  *)
(* invocation returns the error and the stack is still in the store with   *)
(* its finalizer.                                                          *)
C29_DeletionProtocol ==
  (Fetched /\ fetched.deleting) =>
    /\ \A r \in DOMAIN CleanupOrder :
         /\ Cardinality(GetAt(CleanupOrder[r])) <= 1
         /\ r > 1 => \A i \in GetAt(CleanupOrder[r]) :
                       \E j \in GetAt(CleanupOrder[r - 1]) : j < i
    /\ \A i \in DOMAIN calls :
         /\ calls[i].verb = "Delete" =>
              calls[i - 1] = [verb |-> "Get", key |-> calls[i].key, outcome |-> "ok"]
         /\ (calls[i].verb = "Update" /\ calls[i].key = StackKey) =>
              /\ i = Len(calls) /\ pc = "done"
              /\ \A r \in DOMAIN CleanupOrder :
                   \E j \in GetAt(CleanupOrder[r]) : j < i
              /\ calls[i].outcome = "ok" => result = Result(0, "")
              /\ calls[i].outcome # "ok" =>
                   /\ result.err # ""
                   /\ stack.present /\ stack.finalizer /\ stack.deleting

\* A stack whose collector is disabled was marked for deletion; the
\* invocation looked up the collector's children, deleted the dashboard's
\* workload, and failed to persist the removal of the finalizer.
C29_Witness ==
  /\ pc = "done" /\ Fetched /\ fetched.deleting
  /\ ~fetched.spec.prometheus.enabled /\ fetched.spec.grafana.enabled
  /\ Has("Get", PromDep, {"notfound"})
  /\ Has("Delete", GrafDep, {"ok"})
  /\ Has("Update", StackKey, {"error"})
  /\ result.err # ""
  /\ stack.present /\ stack.finalizer

-----------------------------------------------------------------------------
\* The invocation fetched a stack that has its finalizer and no phase yet.
NeedsStatusInit ==
  /\ Fetched /\ ~fetched.deleting /\ fetched.finalizer
  /\ fetched.status.phase = ""

(* C30.  Status initialisation: when the fetched stack carries the         *)
(* finalizer and its phase is unset, the call that follows the fetch is    *)
(* the status write, and right after a successful one the stored phase is  *)
(* Pending; every call on a child comes after that successful write.  If   *)
(* the write fails it is the last call: the invocation is over and has     *)
(* returned the error with no requeue interval.                            *)
C30_StatusInitFirst ==
  NeedsStatusInit =>
    /\ Len(calls) >= 2 =>
         /\ calls[2].verb = "StatusUpdate" /\ calls[2].key = StackKey
         /\ (Len(calls) = 2 /\ calls[2].outcome = "ok") =>
              /\ stack.status.phase = "Pending"
              /\ stack.status.message = "Initializing MonitorStack"
         /\ calls[2].outcome # "ok" =>
              /\ Len(calls) = 2 /\ pc = "done"
              /\ result.err # "" /\ result.requeueAfter = 0
    /\ \A i \in DOMAIN calls :
         calls[i].key \in ChildKeys => (i > 2 /\ calls[2].outcome = "ok")

\* The status write of a stack with an enabled collector failed: the
\* invocation is over, and no child exists.
C30_Witness ==
  /\ NeedsStatusInit /\ pc = "done"
  /\ fetched.spec.prometheus.enabled
  /\ calls[Len(calls)] = [verb |-> "StatusUpdate", key |-> StackKey,
                          outcome |-> "error"]
  /\ result.err # ""
  /\ stack.status.phase = ""
  /\ \A k \in ChildKeys : ~store[k].present

-----------------------------------------------------------------------------
\* What the read-back records of a workload, the endpoint aside.
Observed(status, deployment) ==
  /\ status.ready = (deployment.readyReplicas > 0)
  /\ status.replicas = deployment.replicas
  /\ status.message = IF deployment.readyReplicas > 0 THEN "Ready" ELSE "Not Ready"

(* C31.  Read-back: after an invocation converged the enabled components   *)
(* without error and returned success, with nothing external during it,   *)
(* the status it persisted for each enabled component has ready = (ready   *)
(* replicas of the workload > 0), replicas = the workload's replicas, and  *)
(* message "Ready" when ready and "Not Ready" otherwise.                   *)
C31_ReadBack ==
  (Completed /\ NoApiErrors /\ ~disturbed) =>
    /\ fetched.spec.prometheus.enabled =>
         Observed(stack.status.prometheusStatus, store[PromDep])
    /\ fetched.spec.grafana.enabled =>
         Observed(stack.status.grafanaStatus, store[GrafDep])

\* The collector's workload has a replica that is not ready, the dashboard's
\* a ready one, and the invocation persisted both observations.
C31_Witness ==
  /\ Completed /\ NoApiErrors /\ ~disturbed
  /\ store[PromDep].replicas = 1 /\ store[PromDep].readyReplicas = 0
  /\ store[GrafDep].readyReplicas = 1
  /\ stack.status.prometheusStatus.replicas = 1
  /\ ~stack.status.prometheusStatus.ready
  /\ stack.status.grafanaStatus.ready
  /\ stack.status.grafanaStatus.message = "Ready"

-----------------------------------------------------------------------------
\* Call i wrote the collector's workload.
WroteWorkload(i) ==
  /\ calls[i].key = PromDep
  /\ calls[i].verb \in {"Create", "Update"}
  /\ calls[i].outcome = "ok"

\* The data volume of the stored collector workload ("" is pod-local scratch).
DataClaim == store[PromDep].spec.volumes[2].claimName

(* C32.  The data volume of the collector's workload is backed by the      *)
(* claim {stack}-prometheus-data exactly when the spec the invocation      *)
(* fetched has a storage size, and by pod-local scratch space otherwise;   *)
(* and every write of a workload that references the claim comes after a   *)
(* call of the same invocation that found the claim or created it.         *)
C32_DataVolumeAndClaim ==
  /\ (calls # <<>> /\ WroteWorkload(Len(calls)) /\ store[PromDep].present) =>
       /\ store[PromDep].spec.volumes[2].name = "data"
       /\ DataClaim = IF fetched.spec.prometheus.storage.size # ""
                      THEN StackName \o "-prometheus-data" ELSE ""
  /\ \A i \in DOMAIN calls :
       (WroteWorkload(i) /\ fetched.spec.prometheus.storage.size # "") =>
         \E j \in 1..(i - 1) :
           /\ calls[j].key = PromPVC /\ calls[j].outcome = "ok"
           /\ calls[j].verb \in {"Get", "Create"}

\* The claim was created and then the workload that mounts it.
C32_Witness ==
  /\ calls # <<>> /\ WroteWorkload(Len(calls))
  /\ Has("Create", PromPVC, {"ok"})
  /\ store[PromDep].present /\ store[PromPVC].present
  /\ DataClaim = "acme-prometheus-data"

-----------------------------------------------------------------------------
\* The stored workload asks for one replica of one container.
OneReplicaOneContainer(deployment) ==
  /\ deployment.present
  /\ deployment.spec.replicas = 1
  /\ Len(deployment.spec.containers) = 1

(* C33.  After an invocation converged the enabled components without      *)
(* error and returned success, with nothing external during it, each       *)
(* enabled component's workload asks for exactly one replica and has       *)
(* exactly one container, also when the workload had been scaled by        *)
(* someone else before the invocation.                                     *)
C33_OneReplicaOneContainer ==
  (Completed /\ NoApiErrors /\ ~disturbed) =>
    /\ fetched.spec.prometheus.enabled => OneReplicaOneContainer(store[PromDep])
    /\ fetched.spec.grafana.enabled => OneReplicaOneContainer(store[GrafDep])

\* The collector's workload still reports the two replicas it was scaled to,
\* and the invocation has set it back to one.
C33_Witness ==
  /\ Completed /\ NoApiErrors /\ ~disturbed
  /\ Has("Update", PromDep, {"ok"})
  /\ store[PromDep].replicas = 2
  /\ store[PromDep].spec.replicas = 1

-----------------------------------------------------------------------------
(* C34.  After an invocation converged the enabled components without      *)
(* error and returned success, with nothing external during it, the        *)
(* selector of each enabled component's endpoint equals the labels of the  *)
(* pod template of its workload.                                           *)
C34_SelectorMatchesPodLabels ==
  (Completed /\ NoApiErrors /\ ~disturbed) =>
    /\ fetched.spec.prometheus.enabled =>
         store[PromSvc].spec.selector = store[PromDep].spec.templateLabels
    /\ fetched.spec.grafana.enabled =>
         store[GrafSvc].spec.selector = store[GrafDep].spec.templateLabels

-----------------------------------------------------------------------------
(* C35.  After an invocation converged the enabled components without      *)
(* error and returned success, with nothing external during it, every      *)
(* existing child of an enabled component carries the ownership link to    *)
(* the stack, a child that had no such link before the invocation          *)
(* included.                                                               *)
C35_EveryChildOwned ==
  (Completed /\ NoApiErrors /\ ~disturbed) =>
    \A k \in ChildKeys :
      (Converging(k) /\ store[k].present) => store[k].owner = StackName

(* C36.  The engine never updates or deletes a resource that carries no    *)
(* ownership link to the stack being reconciled: the object a successful   *)
(* Update or Delete of the invocation acts on is owned by that stack.      *)
C36_ActsOnlyOnOwned ==
  [][(/\ EngineStep
      /\ LastCall.key \in ChildKeys
      /\ LastCall.verb \in {"Update", "Delete"}
      /\ LastCall.outcome = "ok")
     => store[LastCall.key].owner = fetched.name]_vars

-----------------------------------------------------------------------------
\* The last call of the invocation wrote the status, and the write succeeded.
StatusPersisted ==
  /\ calls # <<>>
  /\ calls[Len(calls)] = [verb |-> "StatusUpdate", key |-> StackKey, outcome |-> "ok"]

(* C37.  Every phase the engine persists is Pending, Ready or Failed: the  *)
(* stored phase is never Updating, and right after a successful status     *)
(* write it is not empty either.  Failed is persisted only by an           *)
(* invocation one of whose convergence steps failed, and an invocation     *)
(* that returned the 5-minute interval persisted Ready or Pending.         *)
C37_PersistedPhases ==
  /\ stack.present => stack.status.phase \in {"", "Pending", "Ready", "Failed"}
  /\ (StatusPersisted /\ stack.present) =>
       /\ stack.status.phase \in {"Pending", "Ready", "Failed"}
       /\ stack.status.phase = "Failed" => \E i \in DOMAIN calls : StepFailed(i)
  /\ Completed =>
       /\ StatusPersisted
       /\ stack.present => stack.status.phase \in {"Ready", "Pending"}

\* An invocation persisted Failed after the Create of the collector's
\* workload failed.
C37_Witness ==
  /\ StatusPersisted /\ pc = "done"
  /\ stack.status.phase = "Failed"
  /\ Has("Create", PromDep, {"error"})
  /\ result.requeueAfter = RequeueFailure

-----------------------------------------------------------------------------
\* The stack is marked for deletion or gone.
Deleted == ~stack.present \/ stack.deleting

(* C38.  Convergence liveness: unless the stack is marked for deletion,    *)
(* the persisted phase eventually is Ready and stays Ready; and Failed is  *)
(* not absorbing: a persisted Failed is always followed by a persisted     *)
(* Ready or Pending, or by the deletion of the stack.                      *)
C38_EventuallyReady ==
  /\ <>Deleted \/ <>[](stack.status.phase = "Ready")
  /\ (stack.status.phase = "Failed") ~>
       (Deleted \/ stack.status.phase \in {"Ready", "Pending"})

\* The pass after a Failed pass made no failing call and replaced Failed by
\* Ready, both workloads being ready.
C38_Witness ==
  /\ Completed /\ NoApiErrors
  /\ fetched.status.phase = "Failed"
  /\ stack.present /\ stack.status.phase = "Ready"
  /\ store[PromDep].readyReplicas = 1 /\ store[GrafDep].readyReplicas = 1

(* C39.  Deletion liveness: a stack that is marked for deletion is         *)
(* eventually gone from the store (its finalizer was removed), whatever    *)
(* the child lookups and deletes of the cleanup answered.                  *)
C39_DeletionCompletes ==
  (stack.present /\ stack.deleting) ~> ~stack.present

\* The stack is gone although a cleanup lookup of the deleting invocation
\* failed.
C39_Witness ==
  /\ pc = "done" /\ Fetched /\ fetched.deleting
  /\ ~stack.present
  /\ \E i \in DOMAIN calls :
       calls[i].key \in ChildKeys /\ calls[i].outcome = "error"
  /\ Has("Update", StackKey, {"ok"})

-----------------------------------------------------------------------------
(* Defaulting of minimal specs.                                            *)

\* A component that is enabled with no other field written.
MinimalPrometheus == [UnsetPrometheus EXCEPT !.enabled = TRUE]

MinimalGrafana == [UnsetGrafana EXCEPT !.enabled = TRUE]

\* At least one component is enabled, and every enabled component has all of
\* its other fields unset.
MinimalSpec(spec) ==
  /\ spec.prometheus.enabled \/ spec.grafana.enabled
  /\ spec.prometheus.enabled => spec.prometheus = MinimalPrometheus
  /\ spec.grafana.enabled => spec.grafana = MinimalGrafana

\* C40: once setDefaultValues has been applied to a spec that has at least one
\* component enabled and every other field of its enabled components unset,
\* validateMonitorStack returns no error; and setDefaultValues leaves every
\* field of a component that is disabled as it was written.
C40_DefaultsMakeMinimalValid ==
  events >= 1 =>
    /\ MinimalSpec(fetched.spec) =>
          /\ validateMonitorStack(ms) = ""
          /\ pc = "validateMonitorStack" => result.err = ""
    /\ ~fetched.spec.prometheus.enabled =>
          ms.spec.prometheus = fetched.spec.prometheus
    /\ ~fetched.spec.grafana.enabled =>
          ms.spec.grafana = fetched.spec.grafana

\* A minimal Prometheus next to a Grafana that is written out but disabled:
\* defaults were applied, validation then passed, and Grafana is untouched.
C40_Witness ==
  /\ pc = "validateMonitorStack"
  /\ events = 1
  /\ fetched.spec.prometheus = MinimalPrometheus
  /\ fetched.spec.grafana = [FullGrafana EXCEPT !.enabled = FALSE]
  /\ ms.spec.prometheus.image = "prom/prometheus"
  /\ ms.spec.grafana = fetched.spec.grafana
  /\ result.err = ""

====
